---- MODULE Spec2Model ----
(***************************************************************************)
(* Stimulation sequence compilers, pulse encoder and electrode allocators  *)
(* of the Brainoware stimulation scripts.                                  *)
(*                                                                         *)
(*   procedure_2/stimulation_example_official.py   ("official")            *)
(*   procedure_2/1_evoked_response/evoked_response_MEA.py   ("evoked")     *)
(*   procedure_2/4_recurrent_effects/recurrent_effects_MEA.py ("recurrent")*)
(*   procedure_2/5_spatial_information/spatial_information.py ("spatial")  *)
(*   procedure_3/2_Electrical_stimulation_and_recording.py ("procedure3")  *)
(*                                                                         *)
(* Spec      : one process compiling stimulation sequences, one loop       *)
(*             iteration of prepare_stim_sequence per step.                *)
(* SpecAlloc : one script connecting stimulation electrodes to units, one  *)
(*             electrode per step.                                         *)
(* SpecPattern : the spatial and the procedure-3 script, from the          *)
(*             allocation loop through the build of sequence1 to its send. *)
(* SpecSend  : one process compiling with the official compiler and then   *)
(*             running send_stim_pulses_all_units.                         *)
(* SpecSeq   : one process that may power all units off, compiles with    *)
(*             the official compiler and runs                              *)
(*             send_stim_pulses_units_sequentially; SpecSeqFair adds the   *)
(*             fairness of the dispatcher's steps.                         *)
(* psth_plot.py, the offline decoder, is modelled by the positions it      *)
(* takes from the recorded stimulation times.                              *)
(***************************************************************************)
EXTENDS Integers, Sequences, FiniteSets, TLC

VARIABLES
    compiler,          \* which script's prepare_stim_sequence this process runs
    device_lsb,        \* what mx.query_DAC_lsb_mV() answers, in hundredths of a millivolt
    device_log,        \* device queries and commands, and the host's waits, in order
    args,              \* arguments of the running call of prepare_stim_sequence
    dac_lsb_mV,        \* float(mx.query_DAC_lsb_mV()), in hundredths of a millivolt
    event_counter,     \* module global of stimulation_example_official
    seq,               \* the mx.Sequence being filled: a list of instructions
    cpc,               \* "idle" | "loop" | "done" | "raised"
    err,               \* the exception that ended the call, or "none"
    ai,                \* completed iterations of the amplitude loop
    pi,                \* completed iterations of the phase loop
    rep,               \* completed iterations of the innermost repetition loop
    train,             \* recurrent mode: completed iterations of the outer loop
    repeating_number,  \* recurrent mode: local repeating_number
    counter0,          \* value of event_counter when the running call started
    calls,             \* calls of prepare_stim_sequence made by this process
    allocator,         \* which script's allocation loop runs
    stim_electrodes,   \* the electrode list given to the allocation
    stim_units,        \* the unit list built so far
    el,                \* electrodes processed so far
    apc,               \* "idle" | "loop" | "allocated" | "downloaded" | "raised"
    alloc_err,         \* the exception that ended the allocation, or <<>>
    array_log,         \* calls made on the array, in order
    reports,           \* what query_stimulation_at_electrode returned, in order
    printed,           \* electrodes named in a printed (not raised) message
    patterns,          \* spatial_information.py: the list of patterns
    pattern,           \* the pattern the running loop body works on
    sequence1,         \* the mx.Sequence a script builds from its patterns
    bpc,               \* "idle" | "power" | "pulse" | "down" | "clip_end" | "sent" | "raised"
    pattern_i,         \* completed iterations of the outer loop of the build
    step_i,            \* completed iterations of the inner loop of the build
    build_err,         \* the exception that ended the build, or "none"
    number_pulse_trains, \* argument of send_stim_pulses_all_units
    sends,             \* completed iterations of the loop of the dispatcher
    dpc,               \* "idle" | "sending" | "seq_up" | "seq_send" | "seq_down" | "returned"
    units_arg,         \* argument stim_units of send_stim_pulses_units_sequentially
    powered,           \* the stimulation units powered up on the device
    powered0           \* the value of powered when the sequential dispatcher was called

compileVars == <<compiler, device_lsb, device_log, args, dac_lsb_mV, event_counter, seq, cpc, err, ai, pi,
                 rep, train, repeating_number, counter0, calls>>
allocVars == <<allocator, stim_electrodes, stim_units, el, apc, alloc_err,
               array_log, reports, printed>>
buildVars == <<patterns, pattern, sequence1, bpc, pattern_i, step_i, build_err>>
sendVars == <<number_pulse_trains, sends, dpc, units_arg, powered, powered0>>
vars == <<compileVars, allocVars, buildVars, sendVars>>

----------------------------------------------------------------------------
\* Bounds of the model.

\* number_pulses_per_train ranges over 1..MaxPulses
MaxPulses == 3
\* calls of prepare_stim_sequence in one process
MaxCalls == 2
\* length of the electrode list of one allocation
MaxElectrodes == 3
\* repetitions of one pattern in spatial_information.py (30 in the script)
MaxReps == 2
\* timesteps of one audio clip in the procedure-3 script (29 in the script)
MaxTimesteps == 2
\* audio clips in the procedure-3 script (audio_number, 240 in the script)
MaxClips == 1
\* number_pulse_trains ranges over 0..MaxTrains
MaxTrains == 2

----------------------------------------------------------------------------
\* Optional[int]: None is the empty tuple, a given value v is <<v>>.

None == <<>>

Some(v) == <<v>>

Val(o) == o[1]

----------------------------------------------------------------------------
\* Instructions appended to an mx.Sequence.

Event(channel, kind, id, label) ==
    [op |-> "Event", channel |-> channel, kind |-> kind, id |-> id, label |-> label]

DAC(channel, value) == [op |-> "DAC", channel |-> channel, value |-> value]

DelaySamples(samples) == [op |-> "DelaySamples", samples |-> samples]

\* f"amplitude {amplitude} event_id {event_counter}"
Label(amplitude, id) == <<"amplitude ", amplitude, " event_id ", id>>

\* Mutant of IntDiv: the quotient is rounded to the nearest integer.
IntDiv_rounded(x, y) ==
    LET p == x * 100
        q == y
        ap == IF p < 0 THEN -p ELSE p
        aq == IF q < 0 THEN -q ELSE q
        m == (2 * ap + aq) \div (2 * aq)
    IN  IF (p < 0) = (q < 0) THEN m ELSE -m

\* Python's int(x / y) for an integer x and a float y given in hundredths:
\* the quotient truncated toward zero.  y is not 0.
IntDiv(x, y) ==
    LET p == x * 100
        q == y
        ap == IF p < 0 THEN -p ELSE p
        aq == IF q < 0 THEN -q ELSE q
        m == ap \div aq
    IN  IF (p < 0) = (q < 0) THEN m ELSE -m

\* Mutant of PyRange: the stop value is included (start <= stop, closed range).
PyRange_inclusive(start, stop, step) ==
    LET len == IF start <= stop THEN ((stop - start) \div step) + 1 ELSE 0
    IN  [k \in 1..len |-> start + (k - 1) * step]

\* range(start, stop, step) with step > 0, as the list of its values.
PyRange(start, stop, step) ==
    LET len == IF start < stop THEN ((stop - start - 1) \div step) + 1 ELSE 0
    IN  [k \in 1..len |-> start + (k - 1) * step]

\* Mutant of create_stim_pulse: the Event carries the counter's value from
\* before the increment.
create_stim_pulse_staleId(s, counter, amplitude, delay_samples) ==
    [event_counter |-> counter + 1,
     seq |-> s \o << Event(0, 1, counter, Label(amplitude, counter)),
                     DAC(0, 512 - amplitude),
                     DelaySamples(delay_samples),
                     DAC(0, 512 + amplitude),
                     DelaySamples(delay_samples),
                     DAC(0, 512) >>]

\* Mutant of create_stim_pulse: the second phase repeats the first level
\* instead of mirroring it.
create_stim_pulse_sameSign(s, counter, amplitude, delay_samples) ==
    LET c == counter + 1
    IN  [event_counter |-> c,
         seq |-> s \o << Event(0, 1, c, Label(amplitude, c)),
                         DAC(0, 512 - amplitude),
                         DelaySamples(delay_samples),
                         DAC(0, 512 - amplitude),
                         DelaySamples(delay_samples),
                         DAC(0, 512) >>]

\* create_stim_pulse(seq, amplitude, delay_samples) run with the global
\* event_counter = counter: the new value of the global and the sequence returned.
create_stim_pulse(s, counter, amplitude, delay_samples) ==
    LET c == counter + 1
    IN  [event_counter |-> c,
         seq |-> s \o << Event(0, 1, c, Label(amplitude, c)),
                         DAC(0, 512 - amplitude),
                         DelaySamples(delay_samples),
                         DAC(0, 512 + amplitude),
                         DelaySamples(delay_samples),
                         DAC(0, 512) >>]

----------------------------------------------------------------------------
\* Inputs of the model: the arguments a caller passes and the value the device
\* reports.  Amplitudes are millivolts, phases and intervals are samples.
\* A sweep's max and step are given only together with its flag; the steps are
\* positive ("Increment amplitude interval", "Increment phase interval").

\* The device's answers to mx.query_DAC_lsb_mV(), in hundredths of a millivolt:
\* 2.92, 0, -2.92.  One device answers the same at every query.
LsbValues == {292, 0, -292}

PulseCounts == 1..MaxPulses

IntervalValues == {2000}

AmplitudeSweeps ==
    { [max |-> None, step |-> Some(100)],
      [max |-> Some(300), step |-> None],
      [max |-> Some(100), step |-> Some(100)],
      [max |-> Some(300), step |-> Some(100)],
      [max |-> Some(700), step |-> Some(100)],
      [max |-> Some(1600), step |-> Some(1400)] }

PhaseSweeps ==
    { [max |-> None, step |-> Some(2)],
      [max |-> Some(6), step |-> None],
      [max |-> Some(2), step |-> Some(2)],
      [max |-> Some(6), step |-> Some(2)] }

NoSweep == [max |-> None, step |-> None]

\* Argument lists of stimulation_example_official.prepare_stim_sequence.
OfficialArgs ==
    { [number_pulses_per_train |-> n, inter_pulse_interval |-> d, phase |-> 2,
       amplitude |-> 100, changing_amplitude |-> ca,
       max_amplitude |-> sw.max, amplitude_interval |-> sw.step] :
      n \in PulseCounts, d \in IntervalValues,
      ca \in BOOLEAN, sw \in AmplitudeSweeps \cup {NoSweep} }

\* Argument lists of evoked_response_MEA.prepare_stim_sequence.
EvokedArgs ==
    { [number_pulses_per_train |-> n, inter_pulse_interval |-> d, phase |-> 2,
       amplitude |-> 100, changing_amplitude |-> ca,
       max_amplitude |-> sa.max, amplitude_interval |-> sa.step,
       changing_phase |-> cp, max_phase |-> sp.max, phase_interval |-> sp.step] :
      n \in PulseCounts, d \in IntervalValues,
      ca \in BOOLEAN, sa \in AmplitudeSweeps \cup {NoSweep},
      cp \in BOOLEAN, sp \in PhaseSweeps \cup {NoSweep} }

\* Argument lists of recurrent_effects_MEA.prepare_stim_sequence.
RecurrentArgs ==
    { [number_pulses_per_train |-> n, inter_pulse_interval |-> d,
       inter_train_interval |-> 20000, phase |-> 2, amplitude |-> 100] :
      n \in PulseCounts, d \in IntervalValues }

\* The sweep arguments a caller gives: none without the flag.
SweepGiven(flag, max, step) == flag \/ (max = None /\ step = None)

----------------------------------------------------------------------------
\* The running call's sweep values.

Amplitudes == PyRange(args.amplitude, Val(args.max_amplitude), Val(args.amplitude_interval))

Phases == PyRange(args.phase, Val(args.max_phase), Val(args.phase_interval))

\* seq = create_stim_pulse(seq, int(mV / dac_lsb_mV), delay_samples)
\* seq.append(mx.DelaySamples(inter_pulse_interval))
\* as one iteration of a repetition loop.
EmitPulse(mV, delay_samples) ==
    IF dac_lsb_mV = 0
    THEN /\ cpc' = "raised"
         /\ err' = "ZeroDivisionError"
         /\ UNCHANGED <<seq, event_counter, rep>>
    ELSE LET r == create_stim_pulse(seq, event_counter, IntDiv(mV, dac_lsb_mV),
                                    delay_samples)
         IN  /\ seq' = Append(r.seq, DelaySamples(args.inter_pulse_interval))
             /\ event_counter' = r.event_counter
             /\ rep' = rep + 1
             /\ UNCHANGED <<cpc, err>>

\* "event_counter = 1" in __main__ of the evoked-response and recurrent scripts:
\* a variable of the script's own module, which create_stim_pulse (imported
\* from stimulation_example_official, whose global it increments) never reads.
script_event_counter == 1

\* Mutant of EnterCall: every compilation restarts the event counter at 1.
EnterCall_resetCounter(a, raises) ==
    /\ cpc \in {"idle", "done"}
    /\ dpc = "idle"
    /\ calls < MaxCalls
    /\ args' = a
    /\ dac_lsb_mV' = device_lsb
    /\ device_log' = Append(device_log, <<"query_DAC_lsb_mV">>)
    /\ seq' = <<>>
    /\ IF raises
       THEN cpc' = "raised" /\ err' = "ValueError"
       ELSE cpc' = "loop" /\ err' = "none"
    /\ ai' = 0 /\ pi' = 0 /\ rep' = 0 /\ train' = 0 /\ repeating_number' = 1
    /\ counter0' = 1
    /\ event_counter' = 1
    /\ calls' = calls + 1
    /\ UNCHANGED <<compiler, device_lsb, allocVars, buildVars, sendVars>>

\* Entry of a call: seq = mx.Sequence(), the device query, the loop variables.
EnterCall(a, raises) ==
    /\ cpc \in {"idle", "done"}
    /\ dpc = "idle"
    /\ calls < MaxCalls
    /\ args' = a
    /\ dac_lsb_mV' = device_lsb
    /\ device_log' = Append(device_log, <<"query_DAC_lsb_mV">>)
    /\ seq' = <<>>
    /\ IF raises
       THEN cpc' = "raised" /\ err' = "ValueError"
       ELSE cpc' = "loop" /\ err' = "none"
    /\ ai' = 0 /\ pi' = 0 /\ rep' = 0 /\ train' = 0 /\ repeating_number' = 1
    /\ counter0' = event_counter
    /\ calls' = calls + 1
    /\ UNCHANGED <<compiler, device_lsb, event_counter, allocVars, buildVars, sendVars>>

----------------------------------------------------------------------------
\* stimulation_example_official.prepare_stim_sequence

\* "if max_amplitude is None or amplitude_interval is None": a ValueError is raised.
OfficialMissingBounds(a) ==
    a.changing_amplitude /\ (a.max_amplitude = None \/ a.amplitude_interval = None)

CallOfficial ==
    /\ compiler = "official"
    /\ \E a \in OfficialArgs :
        /\ SweepGiven(a.changing_amplitude, a.max_amplitude, a.amplitude_interval)
        /\ EnterCall(a, OfficialMissingBounds(a))

OfficialAmplitudePulse ==
    /\ compiler = "official" /\ cpc = "loop"
    /\ args.changing_amplitude
    /\ ai < Len(Amplitudes) /\ rep < args.number_pulses_per_train
    /\ EmitPulse(Amplitudes[ai + 1], args.phase)
    /\ UNCHANGED <<compiler, device_lsb, device_log, args, dac_lsb_mV, ai, pi, train, repeating_number,
                   counter0, calls, allocVars, buildVars, sendVars>>

OfficialAmplitudeTrainGap ==
    /\ compiler = "official" /\ cpc = "loop"
    /\ args.changing_amplitude
    /\ ai < Len(Amplitudes) /\ rep = args.number_pulses_per_train
    /\ seq' = Append(seq, DelaySamples(args.inter_pulse_interval))
    /\ ai' = ai + 1
    /\ rep' = 0
    /\ UNCHANGED <<compiler, device_lsb, device_log, args, dac_lsb_mV, event_counter, cpc, err, pi, train,
                   repeating_number, counter0, calls, allocVars, buildVars, sendVars>>

\* Mutant of OfficialPlainPulse: the inter-pulse delay after the pulse is left out.
OfficialPlainPulse_noDelay ==
    /\ compiler = "official" /\ cpc = "loop"
    /\ ~args.changing_amplitude
    /\ rep < args.number_pulses_per_train
    /\ IF dac_lsb_mV = 0
       THEN cpc' = "raised" /\ err' = "ZeroDivisionError"
            /\ UNCHANGED <<seq, event_counter, rep>>
       ELSE LET r == create_stim_pulse(seq, event_counter,
                                       IntDiv(args.amplitude, dac_lsb_mV), args.phase)
            IN  /\ seq' = r.seq
                /\ event_counter' = r.event_counter
                /\ rep' = rep + 1
                /\ UNCHANGED <<cpc, err>>
    /\ UNCHANGED <<compiler, device_lsb, device_log, args, dac_lsb_mV, ai, pi, train,
                   repeating_number, counter0, calls, allocVars, buildVars, sendVars>>

OfficialPlainPulse ==
    /\ compiler = "official" /\ cpc = "loop"
    /\ ~args.changing_amplitude
    /\ rep < args.number_pulses_per_train
    /\ EmitPulse(args.amplitude, args.phase)
    /\ UNCHANGED <<compiler, device_lsb, device_log, args, dac_lsb_mV, ai, pi, train, repeating_number,
                   counter0, calls, allocVars, buildVars, sendVars>>

OfficialReturn ==
    /\ compiler = "official" /\ cpc = "loop"
    /\ IF args.changing_amplitude
       THEN ai = Len(Amplitudes)
       ELSE rep = args.number_pulses_per_train
    /\ cpc' = "done"
    /\ UNCHANGED <<compiler, device_lsb, device_log, args, dac_lsb_mV, event_counter, seq, err, ai, pi, rep,
                   train, repeating_number, counter0, calls, allocVars, buildVars, sendVars>>

\* The body of stimulation_example_official.prepare_stim_sequence as a
\* function of its arguments a, the device's answer lsb (not 0) and the value
\* counter of the global event_counter at the call: the sequence returned and
\* the global's new value.  OfficialTrain is the loop
\* "for _ in range(number_pulses_per_train)" after k iterations, OfficialSweep
\* the loop "for cur_amplitude in range(...)" after k iterations.
RECURSIVE OfficialTrain(_, _, _, _, _)
OfficialTrain(s, counter, mV, lsb_and_args, k) ==
    IF k = 0 THEN [event_counter |-> counter, seq |-> s]
    ELSE LET before == OfficialTrain(s, counter, mV, lsb_and_args, k - 1)
             r == create_stim_pulse(before.seq, before.event_counter,
                                    IntDiv(mV, lsb_and_args.lsb), lsb_and_args.a.phase)
         IN  [event_counter |-> r.event_counter,
              seq |-> Append(r.seq, DelaySamples(lsb_and_args.a.inter_pulse_interval))]

RECURSIVE OfficialSweep(_, _, _, _)
OfficialSweep(a, lsb, counter, k) ==
    IF k = 0 THEN [event_counter |-> counter, seq |-> <<>>]
    ELSE LET before == OfficialSweep(a, lsb, counter, k - 1)
             cur_amplitude == PyRange(a.amplitude, Val(a.max_amplitude),
                                      Val(a.amplitude_interval))[k]
             r == OfficialTrain(before.seq, before.event_counter, cur_amplitude,
                                [lsb |-> lsb, a |-> a], a.number_pulses_per_train)
         IN  [event_counter |-> r.event_counter,
              seq |-> Append(r.seq, DelaySamples(a.inter_pulse_interval))]

official_prepare_stim_sequence(a, lsb, counter) ==
    IF a.changing_amplitude
    THEN OfficialSweep(a, lsb, counter,
                       Len(PyRange(a.amplitude, Val(a.max_amplitude),
                                   Val(a.amplitude_interval))))
    ELSE OfficialTrain(<<>>, counter, a.amplitude, [lsb |-> lsb, a |-> a],
                       a.number_pulses_per_train)

----------------------------------------------------------------------------
\* evoked_response_MEA.prepare_stim_sequence

\* Mutant of EvokedMissingBounds: the bounds of the phase sweep are not checked.
EvokedMissingBounds_amplitudeOnly(a) ==
    a.changing_amplitude /\ (a.max_amplitude = None \/ a.amplitude_interval = None)

\* The two "is None" tests of the branch taken: a ValueError is raised.
EvokedMissingBounds(a) ==
    \/ a.changing_amplitude /\ (a.max_amplitude = None \/ a.amplitude_interval = None)
    \/ a.changing_phase /\ (a.max_phase = None \/ a.phase_interval = None)

CallEvoked ==
    /\ compiler = "evoked"
    /\ \E a \in EvokedArgs :
        /\ SweepGiven(a.changing_amplitude, a.max_amplitude, a.amplitude_interval)
        /\ SweepGiven(a.changing_phase, a.max_phase, a.phase_interval)
        /\ EnterCall(a, EvokedMissingBounds(a))

\* Mutant of EvokedBothPulse: every pulse takes the base phase, as in the
\* amplitude-only branch.
EvokedBothPulse_basePhase ==
    /\ compiler = "evoked" /\ cpc = "loop"
    /\ args.changing_amplitude /\ args.changing_phase
    /\ ai < Len(Amplitudes) /\ pi < Len(Phases)
    /\ rep < args.number_pulses_per_train
    /\ EmitPulse(Amplitudes[ai + 1], args.phase)
    /\ UNCHANGED <<compiler, device_lsb, device_log, args, dac_lsb_mV, ai, pi, train,
                   repeating_number, counter0, calls, allocVars, buildVars, sendVars>>

\* Branch "changing_amplitude and changing_phase": the innermost loop body.
EvokedBothPulse ==
    /\ compiler = "evoked" /\ cpc = "loop"
    /\ args.changing_amplitude /\ args.changing_phase
    /\ ai < Len(Amplitudes) /\ pi < Len(Phases)
    /\ rep < args.number_pulses_per_train
    /\ EmitPulse(Amplitudes[ai + 1], Phases[pi + 1])
    /\ UNCHANGED <<compiler, device_lsb, device_log, args, dac_lsb_mV, ai, pi, train, repeating_number,
                   counter0, calls, allocVars, buildVars, sendVars>>

\* The delay after the repetition loop; the phase loop goes to its next value.
EvokedBothTrainGap ==
    /\ compiler = "evoked" /\ cpc = "loop"
    /\ args.changing_amplitude /\ args.changing_phase
    /\ ai < Len(Amplitudes) /\ pi < Len(Phases)
    /\ rep = args.number_pulses_per_train
    /\ seq' = Append(seq, DelaySamples(args.inter_pulse_interval))
    /\ pi' = pi + 1
    /\ rep' = 0
    /\ UNCHANGED <<compiler, device_lsb, device_log, args, dac_lsb_mV, event_counter, cpc, err, ai, train,
                   repeating_number, counter0, calls, allocVars, buildVars, sendVars>>

\* The phase loop is exhausted; the amplitude loop goes to its next value.
EvokedBothNextAmplitude ==
    /\ compiler = "evoked" /\ cpc = "loop"
    /\ args.changing_amplitude /\ args.changing_phase
    /\ ai < Len(Amplitudes) /\ pi = Len(Phases)
    /\ ai' = ai + 1
    /\ pi' = 0
    /\ UNCHANGED <<compiler, device_lsb, device_log, args, dac_lsb_mV, event_counter, seq, cpc, err, rep,
                   train, repeating_number, counter0, calls, allocVars, buildVars, sendVars>>

\* Branch "elif changing_amplitude".
EvokedAmplitudePulse ==
    /\ compiler = "evoked" /\ cpc = "loop"
    /\ args.changing_amplitude /\ ~args.changing_phase
    /\ ai < Len(Amplitudes) /\ rep < args.number_pulses_per_train
    /\ EmitPulse(Amplitudes[ai + 1], args.phase)
    /\ UNCHANGED <<compiler, device_lsb, device_log, args, dac_lsb_mV, ai, pi, train, repeating_number,
                   counter0, calls, allocVars, buildVars, sendVars>>

\* Mutant of EvokedAmplitudeTrainGap: no delay between the trains of two
\* amplitudes.
EvokedAmplitudeTrainGap_noGap ==
    /\ compiler = "evoked" /\ cpc = "loop"
    /\ args.changing_amplitude /\ ~args.changing_phase
    /\ ai < Len(Amplitudes) /\ rep = args.number_pulses_per_train
    /\ ai' = ai + 1
    /\ rep' = 0
    /\ UNCHANGED <<compiler, device_lsb, device_log, args, dac_lsb_mV, event_counter, seq, cpc,
                   err, pi, train, repeating_number, counter0, calls, allocVars, buildVars,
                   sendVars>>

EvokedAmplitudeTrainGap ==
    /\ compiler = "evoked" /\ cpc = "loop"
    /\ args.changing_amplitude /\ ~args.changing_phase
    /\ ai < Len(Amplitudes) /\ rep = args.number_pulses_per_train
    /\ seq' = Append(seq, DelaySamples(args.inter_pulse_interval))
    /\ ai' = ai + 1
    /\ rep' = 0
    /\ UNCHANGED <<compiler, device_lsb, device_log, args, dac_lsb_mV, event_counter, cpc, err, pi, train,
                   repeating_number, counter0, calls, allocVars, buildVars, sendVars>>

\* Branch "elif changing_phase".
EvokedPhasePulse ==
    /\ compiler = "evoked" /\ cpc = "loop"
    /\ ~args.changing_amplitude /\ args.changing_phase
    /\ pi < Len(Phases) /\ rep < args.number_pulses_per_train
    /\ EmitPulse(args.amplitude, Phases[pi + 1])
    /\ UNCHANGED <<compiler, device_lsb, device_log, args, dac_lsb_mV, ai, pi, train, repeating_number,
                   counter0, calls, allocVars, buildVars, sendVars>>

\* Mutant of EvokedPhaseTrainGap: the phase loop advances without the train gap.
EvokedPhaseTrainGap_noGap ==
    /\ compiler = "evoked" /\ cpc = "loop"
    /\ ~args.changing_amplitude /\ args.changing_phase
    /\ pi < Len(Phases) /\ rep = args.number_pulses_per_train
    /\ pi' = pi + 1
    /\ rep' = 0
    /\ UNCHANGED <<compiler, device_lsb, device_log, args, dac_lsb_mV, event_counter, seq, cpc, err,
                   ai, train, repeating_number, counter0, calls, allocVars, buildVars, sendVars>>

EvokedPhaseTrainGap ==
    /\ compiler = "evoked" /\ cpc = "loop"
    /\ ~args.changing_amplitude /\ args.changing_phase
    /\ pi < Len(Phases) /\ rep = args.number_pulses_per_train
    /\ seq' = Append(seq, DelaySamples(args.inter_pulse_interval))
    /\ pi' = pi + 1
    /\ rep' = 0
    /\ UNCHANGED <<compiler, device_lsb, device_log, args, dac_lsb_mV, event_counter, cpc, err, ai, train,
                   repeating_number, counter0, calls, allocVars, buildVars, sendVars>>

\* Branch "else".
EvokedPlainPulse ==
    /\ compiler = "evoked" /\ cpc = "loop"
    /\ ~args.changing_amplitude /\ ~args.changing_phase
    /\ rep < args.number_pulses_per_train
    /\ EmitPulse(args.amplitude, args.phase)
    /\ UNCHANGED <<compiler, device_lsb, device_log, args, dac_lsb_mV, ai, pi, train, repeating_number,
                   counter0, calls, allocVars, buildVars, sendVars>>

EvokedReturn ==
    /\ compiler = "evoked" /\ cpc = "loop"
    /\ IF args.changing_amplitude
       THEN ai = Len(Amplitudes)
       ELSE IF args.changing_phase
            THEN pi = Len(Phases)
            ELSE rep = args.number_pulses_per_train
    /\ cpc' = "done"
    /\ UNCHANGED <<compiler, device_lsb, device_log, args, dac_lsb_mV, event_counter, seq, err, ai, pi, rep,
                   train, repeating_number, counter0, calls, allocVars, buildVars, sendVars>>

----------------------------------------------------------------------------
\* recurrent_effects_MEA.prepare_stim_sequence

CallRecurrent ==
    /\ compiler = "recurrent"
    /\ \E a \in RecurrentArgs : EnterCall(a, FALSE)

\* The body of "for rep in range(repeating_number)".
RecurrentPulse ==
    /\ compiler = "recurrent" /\ cpc = "loop"
    /\ train < args.number_pulses_per_train
    /\ rep < repeating_number
    /\ EmitPulse(args.amplitude, args.phase)
    /\ UNCHANGED <<compiler, device_lsb, device_log, args, dac_lsb_mV, ai, pi, train, repeating_number,
                   counter0, calls, allocVars, buildVars, sendVars>>

\* Mutant of RecurrentTrainEnd: one inter-train delay after the train.
RecurrentTrainEnd_oneDelay ==
    /\ compiler = "recurrent" /\ cpc = "loop"
    /\ train < args.number_pulses_per_train
    /\ rep = repeating_number
    /\ repeating_number' = repeating_number + 1
    /\ seq' = Append(seq, DelaySamples(args.inter_train_interval))
    /\ train' = train + 1
    /\ rep' = 0
    /\ UNCHANGED <<compiler, device_lsb, device_log, args, dac_lsb_mV, event_counter, cpc, err,
                   ai, pi, counter0, calls, allocVars, buildVars, sendVars>>

\* Mutant of RecurrentTrainEnd: repeating_number is not incremented.
RecurrentTrainEnd_noIncrement ==
    /\ compiler = "recurrent" /\ cpc = "loop"
    /\ train < args.number_pulses_per_train
    /\ rep = repeating_number
    /\ seq' = seq \o << DelaySamples(args.inter_train_interval),
                        DelaySamples(args.inter_train_interval) >>
    /\ train' = train + 1
    /\ rep' = 0
    /\ UNCHANGED <<compiler, device_lsb, device_log, args, dac_lsb_mV, event_counter, cpc, err, ai, pi,
                   repeating_number, counter0, calls, allocVars, buildVars, sendVars>>

\* After the repetition loop: repeating_number += 1 and the two train delays.
RecurrentTrainEnd ==
    /\ compiler = "recurrent" /\ cpc = "loop"
    /\ train < args.number_pulses_per_train
    /\ rep = repeating_number
    /\ repeating_number' = repeating_number + 1
    /\ seq' = seq \o << DelaySamples(args.inter_train_interval),
                        DelaySamples(args.inter_train_interval) >>
    /\ train' = train + 1
    /\ rep' = 0
    /\ UNCHANGED <<compiler, device_lsb, device_log, args, dac_lsb_mV, event_counter, cpc, err, ai, pi,
                   counter0, calls, allocVars, buildVars, sendVars>>

RecurrentReturn ==
    /\ compiler = "recurrent" /\ cpc = "loop"
    /\ train = args.number_pulses_per_train
    /\ cpc' = "done"
    /\ UNCHANGED <<compiler, device_lsb, device_log, args, dac_lsb_mV, event_counter, seq, err, ai, pi, rep,
                   train, repeating_number, counter0, calls, allocVars, buildVars, sendVars>>

----------------------------------------------------------------------------
\* The allocation's variables while no allocation runs.
AllocIdle ==
    /\ allocator = "none"
    /\ stim_electrodes = <<>>
    /\ stim_units = <<>>
    /\ el = 0
    /\ apc = "idle"
    /\ alloc_err = <<>>
    /\ array_log = <<>>
    /\ reports = <<>>
    /\ printed = <<>>

\* The build's variables while no script builds a sequence from patterns.
BuildIdle ==
    /\ patterns = <<>>
    /\ pattern = <<>>
    /\ sequence1 = <<>>
    /\ bpc = "idle"
    /\ pattern_i = 0 /\ step_i = 0
    /\ build_err = "none"

\* The dispatcher's variables while send_stim_pulses_all_units does not run.
SendIdle ==
    /\ number_pulse_trains = 0
    /\ sends = 0
    /\ dpc = "idle"
    /\ units_arg = <<>>
    /\ powered = {}
    /\ powered0 = {}

\* A process that has imported stimulation_example_official (event_counter = 1)
\* and has not called prepare_stim_sequence yet.
Init ==
    /\ compiler \in {"official", "evoked", "recurrent"}
    /\ device_lsb \in LsbValues
    /\ device_log = <<>>
    /\ args = [number_pulses_per_train |-> 0]
    /\ dac_lsb_mV = 0
    /\ event_counter = 1
    /\ seq = <<>>
    /\ cpc = "idle"
    /\ err = "none"
    /\ ai = 0 /\ pi = 0 /\ rep = 0 /\ train = 0 /\ repeating_number = 1
    /\ counter0 = 1
    /\ calls = 0
    /\ AllocIdle
    /\ BuildIdle
    /\ SendIdle

Next ==
    \/ CallOfficial
    \/ OfficialAmplitudePulse
    \/ OfficialAmplitudeTrainGap
    \/ OfficialPlainPulse
    \/ OfficialReturn
    \/ CallEvoked
    \/ EvokedBothPulse
    \/ EvokedBothTrainGap
    \/ EvokedBothNextAmplitude
    \/ EvokedAmplitudePulse
    \/ EvokedAmplitudeTrainGap
    \/ EvokedPhasePulse
    \/ EvokedPhaseTrainGap
    \/ EvokedPlainPulse
    \/ EvokedReturn
    \/ CallRecurrent
    \/ RecurrentPulse
    \/ RecurrentTrainEnd
    \/ RecurrentReturn

Spec == Init /\ [][Next]_vars

----------------------------------------------------------------------------
\* Electrode allocation.  query_stimulation_at_electrode answers with a string:
\* the decimal digits of the unit connected to the electrode, or the empty
\* string.  A string is modelled as the tuple of its digits.

ElectrodeIds == { 3580 + k : k \in 0..(MaxElectrodes - 1) }

\* Lists of distinct electrodes, of 1..MaxElectrodes entries.
ElectrodeLists ==
    UNION { { l \in [1..n -> ElectrodeIds] : \A i, j \in 1..n : i # j => l[i] # l[j] } :
            n \in 1..MaxElectrodes }

\* Answers of the array: no unit (""), "5", "7", "12".
ReportValues == { <<>>, <<5>>, <<7>>, <<1, 2>> }

\* int(stim) for a string of decimal digits.
RECURSIVE ParseInt(_)
ParseInt(digits) ==
    IF Len(digits) = 0
    THEN 0
    ELSE 10 * ParseInt(SubSeq(digits, 1, Len(digits) - 1)) + digits[Len(digits)]

\* x in stim_units
InList(x, l) == \E i \in 1..Len(l) : l[i] = x

\* len(set(l)) != len(l)
HasDuplicates(l) == \E i, j \in 1..Len(l) : i # j /\ l[i] = l[j]

RuntimeError(message) == [type |-> "RuntimeError", message |-> message]

\* array.connect_electrode_to_stimulation(stim_el)
\* stim = array.query_stimulation_at_electrode(stim_el)
ConnectAndQuery(stim_el, stim) ==
    /\ array_log' = array_log \o << <<"connect_electrode_to_stimulation", stim_el>>,
                                    <<"query_stimulation_at_electrode", stim_el>> >>
    /\ reports' = Append(reports, stim)

\* One iteration of the loop of connect_stim_units_to_stim_electrodes.
OfficialConnect ==
    /\ allocator = "official" /\ apc = "loop"
    /\ el < Len(stim_electrodes)
    /\ \E stim \in ReportValues :
        LET stim_el == stim_electrodes[el + 1]
        IN  /\ ConnectAndQuery(stim_el, stim)
            /\ IF Len(stim) = 0
               THEN /\ apc' = "raised"
                    /\ alloc_err' = RuntimeError(
                           <<"No stimulation channel can connect to electrode: ", stim_el>>)
                    /\ UNCHANGED stim_units
               ELSE IF InList(ParseInt(stim), stim_units)
                    THEN /\ apc' = "raised"
                         /\ alloc_err' = RuntimeError(
                                <<"Two electrodes connected to the same stim unit. This is not allowed. Please Select a neighboring electrode of ", stim_el>>)
                         /\ UNCHANGED stim_units
                    ELSE /\ stim_units' = Append(stim_units, ParseInt(stim))
                         /\ UNCHANGED <<apc, alloc_err>>
    /\ el' = el + 1
    /\ UNCHANGED <<allocator, stim_electrodes, printed, compileVars, buildVars, sendVars>>

\* return stim_units
OfficialAllocReturn ==
    /\ allocator = "official" /\ apc = "loop"
    /\ el = Len(stim_electrodes)
    /\ apc' = "allocated"
    /\ UNCHANGED <<allocator, stim_electrodes, stim_units, el, alloc_err, array_log,
                   reports, printed, compileVars, buildVars, sendVars>>

\* One iteration of the allocation loop of spatial_information.py.
SpatialConnect ==
    /\ allocator = "spatial" /\ apc = "loop"
    /\ el < Len(stim_electrodes)
    /\ \E stim \in ReportValues :
        LET stim_el == stim_electrodes[el + 1]
        IN  /\ ConnectAndQuery(stim_el, stim)
            /\ IF Len(stim) # 0
               THEN /\ stim_units' = Append(stim_units, stim)
                    /\ UNCHANGED printed
               ELSE /\ printed' = Append(printed,
                           <<"No stimulation channel can connect to electrode: ", stim_el>>)
                    /\ UNCHANGED stim_units
    /\ el' = el + 1
    /\ UNCHANGED <<allocator, stim_electrodes, apc, alloc_err, compileVars, buildVars, sendVars>>

\* The loop of spatial_information.py is exhausted.
SpatialLoopEnd ==
    /\ allocator = "spatial" /\ apc = "loop"
    /\ el = Len(stim_electrodes)
    /\ apc' = "allocated"
    /\ UNCHANGED <<allocator, stim_electrodes, stim_units, el, alloc_err, array_log,
                   reports, printed, compileVars, buildVars, sendVars>>

\* One iteration of the allocation loop of 2_Electrical_stimulation_and_recording.py.
Procedure3Connect ==
    /\ allocator = "procedure3" /\ apc = "loop"
    /\ el < Len(stim_electrodes)
    /\ \E stim \in ReportValues :
        LET stim_el == stim_electrodes[el + 1]
        IN  /\ ConnectAndQuery(stim_el, stim)
            /\ printed' = Append(printed, <<stim_el, " - Stim Unit: ", stim>>)
            /\ IF Len(stim) = 0
               THEN /\ apc' = "raised"
                    /\ alloc_err' = RuntimeError(
                           <<"No stimulation channel can connect to electrode: ", stim_el>>)
                    /\ UNCHANGED stim_units
               ELSE /\ stim_units' = Append(stim_units, stim)
                    /\ UNCHANGED <<apc, alloc_err>>
    /\ el' = el + 1
    /\ UNCHANGED <<allocator, stim_electrodes, compileVars, buildVars, sendVars>>

\* After the loop: if len(set(stimulation_units)) != len(stimulation_units): raise
Procedure3Check ==
    /\ allocator = "procedure3" /\ apc = "loop"
    /\ el = Len(stim_electrodes)
    /\ IF HasDuplicates(stim_units)
       THEN /\ apc' = "raised"
            /\ alloc_err' = RuntimeError(
                   <<"Multiple stimulation electrodes connected to same stimulation unit.">>)
       ELSE /\ apc' = "allocated"
            /\ UNCHANGED alloc_err
    /\ UNCHANGED <<allocator, stim_electrodes, stim_units, el, array_log, reports,
                   printed, compileVars, buildVars, sendVars>>

\* array.download(...): the script goes on with the unit list it has.
ArrayDownload ==
    /\ apc = "allocated"
    /\ apc' = "downloaded"
    /\ array_log' = Append(array_log, <<"download">>)
    /\ UNCHANGED <<allocator, stim_electrodes, stim_units, el, alloc_err, reports,
                   printed, compileVars, buildVars, sendVars>>

\* The compiler's variables while no compilation runs.
CompileIdle ==
    /\ compiler = "none"
    /\ device_lsb = 292
    /\ device_log = <<>>
    /\ args = [number_pulses_per_train |-> 0]
    /\ dac_lsb_mV = 0
    /\ event_counter = 1
    /\ seq = <<>>
    /\ cpc = "idle"
    /\ err = "none"
    /\ ai = 0 /\ pi = 0 /\ rep = 0 /\ train = 0 /\ repeating_number = 1
    /\ counter0 = 1
    /\ calls = 0

\* A script about to enter its allocation loop with an empty unit list.
InitAlloc ==
    /\ allocator \in {"official", "spatial", "procedure3"}
    /\ stim_electrodes \in ElectrodeLists
    /\ stim_units = <<>>
    /\ el = 0
    /\ apc = "loop"
    /\ alloc_err = <<>>
    /\ array_log = <<>>
    /\ reports = <<>>
    /\ printed = <<>>
    /\ CompileIdle
    /\ BuildIdle
    /\ SendIdle

NextAlloc ==
    \/ OfficialConnect
    \/ OfficialAllocReturn
    \/ SpatialConnect
    \/ SpatialLoopEnd
    \/ Procedure3Connect
    \/ Procedure3Check
    \/ ArrayDownload

SpecAlloc == InitAlloc /\ [][NextAlloc]_vars

----------------------------------------------------------------------------
\* Sequences built from stimulation patterns: spatial_information.py and
\* 2_Electrical_stimulation_and_recording.py.  A pattern is a list of 0-based
\* positions of the electrode list.

\* maxlab.chip.StimulationUnit(unit).power_up(True).connect(True)
\*     .set_voltage_mode().dac_source(0)
PowerUpCommand(unit) ==
    [op |-> "StimulationUnit", unit |-> unit, power_up |-> TRUE, connect |-> TRUE,
     mode |-> "voltage", dac_source |-> 0]

\* maxlab.chip.StimulationUnit(unit).power_up(False)
PowerDownCommand(unit) == [op |-> "StimulationUnit", unit |-> unit, power_up |-> FALSE]

\* The number of pattern entries a "for num in pattern" loop works off before
\* units[num] raises IndexError: all of them when every index is in range.
Reached(p, units) ==
    LET bad == { j \in 1..Len(p) : p[j] >= Len(units) }
    IN  IF bad = {} THEN Len(p) ELSE (CHOOSE j \in bad : \A i \in bad : j <= i) - 1

\* Mutant of cmd_power_pattern: the commands are appended in reverse pattern order.
cmd_power_pattern_reversed(s, p, units) ==
    LET k == Reached(p, units)
    IN  [seq |-> s \o [j \in 1..k |-> PowerUpCommand(units[p[k + 1 - j] + 1])],
         raised |-> k < Len(p)]

\* spatial_information.cmd_power_pattern(seq, pattern, stimulation_units): the
\* sequence after the call and whether the call raised IndexError.
cmd_power_pattern(s, p, units) ==
    LET k == Reached(p, units)
    IN  [seq |-> s \o [j \in 1..k |-> PowerUpCommand(units[p[j] + 1])],
         raised |-> k < Len(p)]

\* Mutant of cmd_power_down_pattern: the last unit of the pattern is not
\* powered down.
cmd_power_down_pattern_allButLast(s, p, units) ==
    LET k == Reached(p, units)
    IN  [seq |-> s \o [j \in 1..(IF k > 0 THEN k - 1 ELSE 0) |->
                            PowerDownCommand(units[p[j] + 1])],
         raised |-> k < Len(p)]

\* spatial_information.cmd_power_down_pattern(seq, pattern, stimulation_units)
cmd_power_down_pattern(s, p, units) ==
    LET k == Reached(p, units)
    IN  [seq |-> s \o [j \in 1..k |-> PowerDownCommand(units[p[j] + 1])],
         raised |-> k < Len(p)]

\* cmd_power_p(seq, pattern, stimulation_units) of the procedure-3 script
cmd_power_p(s, p, units) ==
    LET k == Reached(p, units)
    IN  [seq |-> s \o [j \in 1..k |-> PowerUpCommand(units[p[j] + 1])],
         raised |-> k < Len(p)]

\* cmd_power_down_p(seq, pattern, stimulation_units) of the procedure-3 script
cmd_power_down_p(s, p, units) ==
    LET k == Reached(p, units)
    IN  [seq |-> s \o [j \in 1..k |-> PowerDownCommand(units[p[j] + 1])],
         raised |-> k < Len(p)]

\* spatial_information.py: amplitude = 150 (DAC bits)
spatial_amplitude == 150

\* spatial_information.append_stimulation_pulse(seq, amplitude): no Event.
append_stimulation_pulse(s, bits) ==
    s \o << DAC(0, 512 - bits), DelaySamples(4), DAC(0, 512 + bits), DelaySamples(4),
            DAC(0, 512) >>

\* Procedure 3: stim_amp_mV = 75 and stim_amp_bits = int(stim_amp_mV / 2.92)
stim_amp_mV == 75

stim_amp_bits == IntDiv(stim_amp_mV, 292)

\* f"amplitude{amplitude} event_id{event_counter}"
Label3(bits, id) == <<"amplitude", bits, " event_id", id>>

\* append_stimulation_pulse(seq, amplitude) of the procedure-3 script, run with
\* the global event_counter = counter.
append_stimulation_pulse_p3(s, counter, bits) ==
    LET c == counter + 1
    IN  [event_counter |-> c,
         seq |-> s \o << Event(0, 1, c, Label3(bits, c)),
                         DAC(0, 512 - bits), DelaySamples(15),
                         DAC(0, 512 + bits), DelaySamples(15),
                         DAC(0, 512) >>]

\* The elements of a set of integers in ascending order.
Ascending(S) ==
    CHOOSE f \in [1..Cardinality(S) -> S] : \A i, j \in 1..Cardinality(S) : i < j => f[i] < f[j]

\* patterns = [pattern_1, pattern_2] for a list of n electrodes: two complementary
\* ascending lists of positions, pattern_1 holding position 0.
PatternPairs(n) ==
    { << Ascending(S), Ascending((0..(n - 1)) \ S) >> :
      S \in { T \in SUBSET (0..(n - 1)) : 0 \in T } }

\* Rows of stimulation_electrode_indices for a list of n electrodes: all
\* positions from the last down to the first, or position 0 alone.
IndexLists(n) == { [j \in 1..n |-> n - j], << 0 >> }

\* The electrode lists of the scripts that build from patterns.
PatternElectrodeLists ==
    { [k \in 1..n |-> 3580 + (k - 1)] : n \in 1..MaxElectrodes }

\* The body of a build step ends: the exception, or the next position.
BuildGoes(raised, next) ==
    IF raised
    THEN bpc' = "raised" /\ build_err' = "IndexError"
    ELSE bpc' = next /\ UNCHANGED build_err

\* spatial_information.py: cmd_power_pattern(sequence1, pattern, stimulation_units)
SpatialPowerPattern ==
    /\ allocator = "spatial" /\ apc = "downloaded" /\ bpc = "power"
    /\ pattern_i < Len(patterns)
    /\ LET r == cmd_power_pattern(sequence1, patterns[pattern_i + 1], stim_units)
       IN  /\ pattern' = patterns[pattern_i + 1]
           /\ sequence1' = r.seq
           /\ BuildGoes(r.raised, "pulse")
    /\ UNCHANGED <<patterns, pattern_i, step_i, allocVars, compileVars, sendVars>>

\* append_stimulation_pulse(sequence1, amplitude) and the five delays after it
SpatialPulse ==
    /\ allocator = "spatial" /\ bpc = "pulse"
    /\ sequence1' = append_stimulation_pulse(sequence1, spatial_amplitude)
                        \o [k \in 1..5 |-> DelaySamples(20000)]
    /\ bpc' = "down"
    /\ UNCHANGED <<patterns, pattern, pattern_i, step_i, build_err, allocVars,
                   compileVars, sendVars>>

\* cmd_power_down_pattern(sequence1, pattern, stimulation_units), the end of
\* the body of "for rep in range(0, 30)"
SpatialPowerDownPattern ==
    /\ allocator = "spatial" /\ bpc = "down"
    /\ LET r == cmd_power_down_pattern(sequence1, pattern, stim_units)
       IN  /\ sequence1' = r.seq
           /\ BuildGoes(r.raised, "power")
    /\ IF step_i + 1 < MaxReps
       THEN step_i' = step_i + 1 /\ UNCHANGED pattern_i
       ELSE step_i' = 0 /\ pattern_i' = pattern_i + 1
    /\ UNCHANGED <<patterns, pattern, allocVars, compileVars, sendVars>>

\* time.sleep(10); sequence1.send()
SpatialSend ==
    /\ allocator = "spatial" /\ apc = "downloaded" /\ bpc = "power"
    /\ pattern_i = Len(patterns)
    /\ device_log' = device_log \o << <<"sleep", 10>>, <<"send", sequence1>> >>
    /\ bpc' = "sent"
    /\ UNCHANGED <<compiler, device_lsb, args, dac_lsb_mV, event_counter, seq, cpc, err,
                   ai, pi, rep, train, repeating_number, counter0, calls>>
    /\ UNCHANGED <<patterns, pattern, sequence1, pattern_i, step_i, build_err,
                   allocVars, sendVars>>

\* Procedure 3: cmd_power_p(sequence1, indices_per_audioclip[timestep],
\* stimulation_units), the row being what the pickle file holds.
Procedure3PowerP ==
    /\ allocator = "procedure3" /\ apc = "downloaded" /\ bpc = "power"
    /\ pattern_i < MaxClips /\ step_i < MaxTimesteps
    /\ \E p \in IndexLists(Len(stim_electrodes)) :
        LET r == cmd_power_p(sequence1, p, stim_units)
        IN  /\ pattern' = p
            /\ sequence1' = r.seq
            /\ BuildGoes(r.raised, "pulse")
    /\ UNCHANGED <<patterns, pattern_i, step_i, allocVars, compileVars, sendVars>>

\* append_stimulation_pulse(sequence1, stim_amp_bits)
Procedure3Pulse ==
    /\ allocator = "procedure3" /\ bpc = "pulse"
    /\ LET r == append_stimulation_pulse_p3(sequence1, event_counter, stim_amp_bits)
       IN  /\ sequence1' = r.seq
           /\ event_counter' = r.event_counter
    /\ bpc' = "down"
    /\ UNCHANGED <<compiler, device_lsb, device_log, args, dac_lsb_mV, seq, cpc, err,
                   ai, pi, rep, train, repeating_number, counter0, calls>>
    /\ UNCHANGED <<patterns, pattern, pattern_i, step_i, build_err, allocVars, sendVars>>

\* cmd_power_down_p(...) and sequence1.append(DelaySamples(1970)), the end of
\* the body of "for timestep in range(0, 29)"
Procedure3PowerDownP ==
    /\ allocator = "procedure3" /\ bpc = "down"
    /\ LET r == cmd_power_down_p(sequence1, pattern, stim_units)
       IN  IF r.raised
           THEN sequence1' = r.seq /\ BuildGoes(TRUE, "raised")
           ELSE /\ sequence1' = Append(r.seq, DelaySamples(1970))
                /\ BuildGoes(FALSE, IF step_i + 1 < MaxTimesteps THEN "power" ELSE "clip_end")
    /\ step_i' = step_i + 1
    /\ UNCHANGED <<patterns, pattern, pattern_i, allocVars, compileVars, sendVars>>

\* The two delays after the timesteps of one audio clip.
Procedure3ClipEnd ==
    /\ allocator = "procedure3" /\ bpc = "clip_end"
    /\ sequence1' = sequence1 \o << DelaySamples(22000), DelaySamples(20000) >>
    /\ pattern_i' = pattern_i + 1
    /\ step_i' = 0
    /\ bpc' = "power"
    /\ UNCHANGED <<patterns, pattern, build_err, allocVars, compileVars, sendVars>>

\* Section 5 of the procedure-3 script: maxlab.offset(), time.sleep(10),
\* sequence1.send(), time.sleep(240 * 5 + 10).
Procedure3Send ==
    /\ allocator = "procedure3" /\ apc = "downloaded" /\ bpc = "power"
    /\ pattern_i = MaxClips
    /\ device_log' = device_log \o << <<"offset">>, <<"sleep", 10>>, <<"send", sequence1>>,
                                      <<"sleep", 1210>> >>
    /\ bpc' = "sent"
    /\ UNCHANGED <<compiler, device_lsb, args, dac_lsb_mV, event_counter, seq, cpc, err,
                   ai, pi, rep, train, repeating_number, counter0, calls>>
    /\ UNCHANGED <<patterns, pattern, sequence1, pattern_i, step_i, build_err,
                   allocVars, sendVars>>

\* A script with its patterns defined, about to enter its allocation loop.
InitPattern ==
    /\ allocator \in {"spatial", "procedure3"}
    /\ stim_electrodes \in PatternElectrodeLists
    /\ stim_units = <<>>
    /\ el = 0
    /\ apc = "loop"
    /\ alloc_err = <<>>
    /\ array_log = <<>>
    /\ reports = <<>>
    /\ printed = <<>>
    /\ CompileIdle
    /\ SendIdle
    /\ patterns \in (IF allocator = "spatial"
                     THEN PatternPairs(Len(stim_electrodes))
                     ELSE { <<>> })
    /\ pattern = <<>>
    /\ sequence1 = <<>>
    /\ bpc = "power"
    /\ pattern_i = 0 /\ step_i = 0
    /\ build_err = "none"

NextPattern ==
    \/ SpatialConnect
    \/ SpatialLoopEnd
    \/ Procedure3Connect
    \/ Procedure3Check
    \/ ArrayDownload
    \/ SpatialPowerPattern
    \/ SpatialPulse
    \/ SpatialPowerDownPattern
    \/ SpatialSend
    \/ Procedure3PowerP
    \/ Procedure3Pulse
    \/ Procedure3PowerDownP
    \/ Procedure3ClipEnd
    \/ Procedure3Send

SpecPattern == InitPattern /\ [][NextPattern]_vars

----------------------------------------------------------------------------
\* stimulation_example_official.send_stim_pulses_all_units, called with the
\* sequence prepare_stim_sequence returned.

\* The call: the loop "for _ in range(number_pulse_trains)" is entered.
CallSendAllUnits ==
    /\ cpc = "done" /\ dpc = "idle"
    /\ \E r \in 0..MaxTrains : number_pulse_trains' = r
    /\ sends' = 0
    /\ dpc' = "sending"
    /\ UNCHANGED <<compileVars, allocVars, buildVars, units_arg, powered, powered0>>

\* Mutant of SendAllUnitsIteration: from the second send on the sequence goes
\* out without its first instruction.
SendAllUnitsIteration_truncated ==
    /\ dpc = "sending"
    /\ sends < number_pulse_trains
    /\ printed' = Append(printed, <<"Send pulse">>)
    /\ device_log' = device_log \o
           << <<"send", IF sends > 0 /\ seq # <<>> THEN Tail(seq) ELSE seq>>, <<"sleep", 10>> >>
    /\ sends' = sends + 1
    /\ UNCHANGED <<compiler, device_lsb, args, dac_lsb_mV, event_counter, seq, cpc, err,
                   ai, pi, rep, train, repeating_number, counter0, calls>>
    /\ UNCHANGED <<allocator, stim_electrodes, stim_units, el, apc, alloc_err, array_log,
                   reports, buildVars, number_pulse_trains, dpc, units_arg, powered,
                   powered0>>

\* Mutant of SendAllUnitsIteration: no time.sleep(10) after the send.
SendAllUnitsIteration_noWait ==
    /\ dpc = "sending"
    /\ sends < number_pulse_trains
    /\ printed' = Append(printed, <<"Send pulse">>)
    /\ device_log' = Append(device_log, <<"send", seq>>)
    /\ sends' = sends + 1
    /\ UNCHANGED <<compiler, device_lsb, args, dac_lsb_mV, event_counter, seq, cpc, err,
                   ai, pi, rep, train, repeating_number, counter0, calls>>
    /\ UNCHANGED <<allocator, stim_electrodes, stim_units, el, apc, alloc_err, array_log,
                   reports, buildVars, number_pulse_trains, dpc, units_arg, powered,
                   powered0>>

\* One iteration: print("Send pulse"); seq.send(); time.sleep(10)
SendAllUnitsIteration ==
    /\ dpc = "sending"
    /\ sends < number_pulse_trains
    /\ printed' = Append(printed, <<"Send pulse">>)
    /\ device_log' = device_log \o << <<"send", seq>>, <<"sleep", 10>> >>
    /\ sends' = sends + 1
    /\ UNCHANGED <<compiler, device_lsb, args, dac_lsb_mV, event_counter, seq, cpc, err,
                   ai, pi, rep, train, repeating_number, counter0, calls>>
    /\ UNCHANGED <<allocator, stim_electrodes, stim_units, el, apc, alloc_err, array_log,
                   reports, buildVars, number_pulse_trains, dpc, units_arg, powered,
                   powered0>>

\* The loop is exhausted: the function returns None.
SendAllUnitsReturn ==
    /\ dpc = "sending"
    /\ sends = number_pulse_trains
    /\ dpc' = "returned"
    /\ UNCHANGED <<compileVars, allocVars, buildVars, number_pulse_trains, sends,
                   units_arg, powered, powered0>>

\* A process that compiles with stimulation_example_official.prepare_stim_sequence
\* and then sends what it compiled to all units.
InitSend == Init /\ compiler = "official"

NextSend ==
    \/ CallOfficial
    \/ OfficialAmplitudePulse
    \/ OfficialAmplitudeTrainGap
    \/ OfficialPlainPulse
    \/ OfficialReturn
    \/ CallSendAllUnits
    \/ SendAllUnitsIteration
    \/ SendAllUnitsReturn

SpecSend == InitSend /\ [][NextSend]_vars

----------------------------------------------------------------------------
\* stimulation_example_official: poweroff_all_stim_units and
\* send_stim_pulses_units_sequentially, the branch of __main__ that stimulates
\* one unit at a time.

\* range(0, 32) of poweroff_all_stim_units: the stimulation units of the device.
NumStimUnits == 32

\* stim.power_up(False); stim.connect(False)
PowerOffCommand(unit) ==
    [op |-> "StimulationUnit", unit |-> unit, power_up |-> FALSE, connect |-> FALSE]

\* The power state of the device after it received a StimulationUnit command.
DeviceApply(on, cmd) ==
    IF cmd.power_up THEN on \cup {cmd.unit} ELSE on \ {cmd.unit}

\* The units a dispatch may name, and the lists of them it may be given.
DispatchUnits == {5, 7}

UnitLists ==
    {<<>>} \cup { <<u>> : u \in DispatchUnits }
           \cup { <<u, v>> : u \in DispatchUnits, v \in DispatchUnits }

\* poweroff_all_stim_units(), called by __main__ before the sequence is compiled.
PoweroffAllStimUnits ==
    /\ cpc = "idle" /\ calls = 0 /\ dpc = "idle"
    /\ device_log = <<>>
    /\ device_log' = [k \in 1..NumStimUnits |-> <<"mx.send", PowerOffCommand(k - 1)>>]
    /\ powered' = powered \ (0..(NumStimUnits - 1))
    /\ UNCHANGED <<compiler, device_lsb, args, dac_lsb_mV, event_counter, seq, cpc, err,
                   ai, pi, rep, train, repeating_number, counter0, calls>>
    /\ UNCHANGED <<allocVars, buildVars, number_pulse_trains, sends, dpc, units_arg,
                   powered0>>

\* The call: the loop "for stim_unit in stim_units" is entered.
CallSendSequentially ==
    /\ cpc = "done" /\ dpc = "idle"
    /\ \E l \in UnitLists : units_arg' = l
    /\ sends' = 0
    /\ powered0' = powered
    /\ dpc' = "seq_up"
    /\ UNCHANGED <<compileVars, allocVars, buildVars, number_pulse_trains, powered>>

\* print(...); stim = ...power_up(True).connect(True).set_voltage_mode()
\* .dac_source(0); mx.send(stim)
SequentialPowerUp ==
    /\ dpc = "seq_up"
    /\ sends < Len(units_arg)
    /\ LET stim_unit == units_arg[sends + 1]
       IN  /\ printed' = Append(printed, <<"Power up stimulation unit ", stim_unit>>)
           /\ device_log' = Append(device_log, <<"mx.send", PowerUpCommand(stim_unit)>>)
           /\ powered' = DeviceApply(powered, PowerUpCommand(stim_unit))
    /\ dpc' = "seq_send"
    /\ UNCHANGED <<compiler, device_lsb, args, dac_lsb_mV, event_counter, seq, cpc, err,
                   ai, pi, rep, train, repeating_number, counter0, calls>>
    /\ UNCHANGED <<allocator, stim_electrodes, stim_units, el, apc, alloc_err, array_log,
                   reports, buildVars, number_pulse_trains, sends, units_arg, powered0>>

\* Mutant of SequentialSend: the sequence is sent twice to the unit.
SequentialSend_twice ==
    /\ dpc = "seq_send"
    /\ printed' = Append(printed, <<"Send pulse">>)
    /\ device_log' = device_log \o << <<"send", seq>>, <<"send", seq>> >>
    /\ dpc' = "seq_down"
    /\ UNCHANGED <<compiler, device_lsb, args, dac_lsb_mV, event_counter, seq, cpc, err,
                   ai, pi, rep, train, repeating_number, counter0, calls>>
    /\ UNCHANGED <<allocator, stim_electrodes, stim_units, el, apc, alloc_err, array_log,
                   reports, buildVars, number_pulse_trains, sends, units_arg, powered,
                   powered0>>

\* print("Send pulse"); seq.send()
SequentialSend ==
    /\ dpc = "seq_send"
    /\ printed' = Append(printed, <<"Send pulse">>)
    /\ device_log' = Append(device_log, <<"send", seq>>)
    /\ dpc' = "seq_down"
    /\ UNCHANGED <<compiler, device_lsb, args, dac_lsb_mV, event_counter, seq, cpc, err,
                   ai, pi, rep, train, repeating_number, counter0, calls>>
    /\ UNCHANGED <<allocator, stim_electrodes, stim_units, el, apc, alloc_err, array_log,
                   reports, buildVars, number_pulse_trains, sends, units_arg, powered,
                   powered0>>

\* Mutant of SequentialPowerDown: the unit is left powered up.
SequentialPowerDown_leftOn ==
    /\ dpc = "seq_down"
    /\ LET stim_unit == units_arg[sends + 1]
       IN  /\ printed' = Append(printed, <<"Power down stimulation unit ", stim_unit>>)
           /\ device_log' = Append(device_log, <<"sleep", 2>>)
           /\ powered' = powered
    /\ sends' = sends + 1
    /\ dpc' = "seq_up"
    /\ UNCHANGED <<compiler, device_lsb, args, dac_lsb_mV, event_counter, seq, cpc, err,
                   ai, pi, rep, train, repeating_number, counter0, calls>>
    /\ UNCHANGED <<allocator, stim_electrodes, stim_units, el, apc, alloc_err, array_log,
                   reports, buildVars, number_pulse_trains, units_arg, powered0>>

\* print(...); stim = mx.StimulationUnit(stim_unit).power_up(False);
\* mx.send(stim); time.sleep(2); the loop moves to the next unit.
SequentialPowerDown ==
    /\ dpc = "seq_down"
    /\ LET stim_unit == units_arg[sends + 1]
       IN  /\ printed' = Append(printed, <<"Power down stimulation unit ", stim_unit>>)
           /\ device_log' = device_log \o << <<"mx.send", PowerDownCommand(stim_unit)>>,
                                              <<"sleep", 2>> >>
           /\ powered' = DeviceApply(powered, PowerDownCommand(stim_unit))
    /\ sends' = sends + 1
    /\ dpc' = "seq_up"
    /\ UNCHANGED <<compiler, device_lsb, args, dac_lsb_mV, event_counter, seq, cpc, err,
                   ai, pi, rep, train, repeating_number, counter0, calls>>
    /\ UNCHANGED <<allocator, stim_electrodes, stim_units, el, apc, alloc_err, array_log,
                   reports, buildVars, number_pulse_trains, units_arg, powered0>>

\* The list is exhausted: the function returns None.
SequentialReturn ==
    /\ dpc = "seq_up"
    /\ sends = Len(units_arg)
    /\ dpc' = "returned"
    /\ UNCHANGED <<compileVars, allocVars, buildVars, number_pulse_trains, sends,
                   units_arg, powered, powered0>>

\* A process that may power all units off, compiles with
\* stimulation_example_official.prepare_stim_sequence and then sends what it
\* compiled to the units of a list, one after the other.  The device may hold
\* any power state when the process starts; it reports 2.92 mV per bit.
InitSeq ==
    /\ compiler = "official"
    /\ device_lsb = 292
    /\ device_log = <<>>
    /\ args = [number_pulses_per_train |-> 0]
    /\ dac_lsb_mV = 0
    /\ event_counter = 1
    /\ seq = <<>>
    /\ cpc = "idle"
    /\ err = "none"
    /\ ai = 0 /\ pi = 0 /\ rep = 0 /\ train = 0 /\ repeating_number = 1
    /\ counter0 = 1
    /\ calls = 0
    /\ AllocIdle
    /\ BuildIdle
    /\ number_pulse_trains = 0
    /\ sends = 0
    /\ dpc = "idle"
    /\ units_arg = <<>>
    /\ powered \in SUBSET DispatchUnits
    /\ powered0 = {}

NextSeq ==
    \/ PoweroffAllStimUnits
    \/ CallOfficial
    \/ OfficialAmplitudePulse
    \/ OfficialAmplitudeTrainGap
    \/ OfficialPlainPulse
    \/ OfficialReturn
    \/ CallSendSequentially
    \/ SequentialPowerUp
    \/ SequentialSend
    \/ SequentialPowerDown
    \/ SequentialReturn

SpecSeq == InitSeq /\ [][NextSeq]_vars

\* The dispatcher is one Python thread running a for loop over a finite list;
\* every statement of its body returns, so each of its steps is taken once
\* it is enabled.
SpecSeqFair ==
    /\ SpecSeq
    /\ WF_vars(SequentialPowerUp)
    /\ WF_vars(SequentialSend)
    /\ WF_vars(SequentialPowerDown)
    /\ WF_vars(SequentialReturn)

----------------------------------------------------------------------------
\* psth_plot.py: the offline decoder of the evoked-response experiment.  It
\* reads the stimulation times in recorded order and selects those of one
\* condition by position.

amp_max == 700

amp_init == 100

\* sti_amp = np.arange(100, amp_max + amp_init, amp_init)
sti_amp == PyRange(amp_init, amp_max + amp_init, amp_init)

\* sti_time[dura_num * R * amplitudes + R * i : dura_num * R * amplitudes + R * i + R]
\* as the list of the 0-based positions it takes, R being
\* repetitions_per_pulse.
sti_time_slice(dura_num, i, R, amplitudes) ==
    [k \in 1..R |-> dura_num * R * amplitudes + R * i + (k - 1)]

----------------------------------------------------------------------------
\* Vocabulary of the properties.

\* The Event instructions of a sequence, in order.
Events(s) == SelectSeq(s, LAMBDA x : x.op = "Event")

NonEvents(s) == SelectSeq(s, LAMBDA x : x.op # "Event")

\* start, start + step, ... strictly below stop, ascending (step > 0).
SweepValues(start, stop, step) ==
    LET S == { v \in start..(stop - 1) : (v - start) % step = 0 }
    IN  [k \in 1..Cardinality(S) |-> start + (k - 1) * step]

\* Positions j..j+5 of s hold one biphasic pulse of amplitude a (DAC bits) and
\* phase p (samples), opened by an Event.
IsPulse(s, j, a, p) ==
    /\ j + 5 <= Len(s)
    /\ s[j].op = "Event"
    /\ s[j + 1] = DAC(0, 512 - a)
    /\ s[j + 2] = DelaySamples(p)
    /\ s[j + 3] = DAC(0, 512 + a)
    /\ s[j + 4] = DelaySamples(p)
    /\ s[j + 5] = DAC(0, 512)

\* Position j of s is a delay of d samples.
IsDelay(s, j, d) == j <= Len(s) /\ s[j] = DelaySamples(d)

\* The (amplitude bits, phase) of the pulses of s, in order.
PulseList(s) ==
    LET at == SelectSeq([j \in 1..Len(s) |-> j], LAMBDA j : s[j].op = "Event")
    IN  [k \in 1..Len(at) |-> <<512 - s[at[k] + 1].value, s[at[k] + 2].samples>>]

Running == cpc \in {"loop", "done"}

InBothSweep ==
    compiler = "evoked" /\ Running /\ args.changing_amplitude /\ args.changing_phase

InAmplitudeSweep ==
    /\ Running
    /\ \/ compiler = "official" /\ args.changing_amplitude
       \/ compiler = "evoked" /\ args.changing_amplitude /\ ~args.changing_phase

InPhaseSweep ==
    compiler = "evoked" /\ Running /\ ~args.changing_amplitude /\ args.changing_phase

InNoSweep ==
    /\ Running
    /\ \/ compiler = "official" /\ ~args.changing_amplitude
       \/ compiler = "evoked" /\ ~args.changing_amplitude /\ ~args.changing_phase

ExpectedAmplitudes ==
    SweepValues(args.amplitude, Val(args.max_amplitude), Val(args.amplitude_interval))

ExpectedPhases == SweepValues(args.phase, Val(args.max_phase), Val(args.phase_interval))

----------------------------------------------------------------------------
\* C1: with both sweeps enabled the pulse at 0-based ordinal i has the amplitude
\* A[i div (|P|*n)] (in DAC bits) and the phase P[(i div n) mod |P|]; every pulse
\* is followed by the inter-pulse delay, one more such delay follows each block
\* of n pulses, and the finished sequence holds |A|*|P|*n pulses.
C1_BothSweepOrder ==
    InBothSweep =>
        LET A == ExpectedAmplitudes
            P == ExpectedPhases
            n == args.number_pulses_per_train
            d == args.inter_pulse_interval
            B == 7 * n + 1
            pulses == Len(Events(seq))
        IN  /\ \A i \in 0..(pulses - 1) :
                LET j == (i \div n) * B + (i % n) * 7 + 1
                IN  /\ Len(P) > 0
                    /\ i \div (Len(P) * n) < Len(A)
                    /\ IsPulse(seq, j,
                               IntDiv(A[(i \div (Len(P) * n)) + 1], dac_lsb_mV),
                               P[((i \div n) % Len(P)) + 1])
                    /\ IsDelay(seq, j + 6, d)
            /\ cpc = "done" =>
                /\ pulses = Len(A) * Len(P) * n
                /\ Len(seq) = Len(A) * Len(P) * B
                /\ \A b \in 1..(Len(A) * Len(P)) : IsDelay(seq, b * B, d)

\* The example: amplitude [100,300) step 100, phase [2,6) step 2, n = 3 at
\* 2.92 mV per bit compiled to its 12 pulses (100 mV is 34 bits, 200 mV is 68).
C1_Witness ==
    /\ compiler = "evoked" /\ cpc = "done" /\ dac_lsb_mV = 292
    /\ args.changing_amplitude /\ args.changing_phase
    /\ args.amplitude = 100 /\ args.max_amplitude = Some(300)
    /\ args.amplitude_interval = Some(100)
    /\ args.phase = 2 /\ args.max_phase = Some(6) /\ args.phase_interval = Some(2)
    /\ args.number_pulses_per_train = 3
    /\ PulseList(seq) = << <<34, 2>>, <<34, 2>>, <<34, 2>>, <<34, 4>>, <<34, 4>>, <<34, 4>>,
                           <<68, 2>>, <<68, 2>>, <<68, 2>>, <<68, 4>>, <<68, 4>>, <<68, 4>> >>

\* C2: the event ids of a sequence under compilation are counter0 + 1,
\* counter0 + 2, ... in order, counter0 being the counter's value at the call,
\* in every compiler and branch.
C2_EventIdsConsecutive ==
    Running =>
        LET ev == Events(seq)
        IN  \A k \in 1..Len(ev) : ev[k].id = counter0 + k

\* A later call of the process (the counter is past its initial value) that
\* compiled a swept sequence of at least four pulses.
C2_Witness ==
    /\ cpc = "done" /\ counter0 > 1
    /\ compiler = "evoked" /\ args.changing_amplitude /\ args.changing_phase
    /\ Len(Events(seq)) >= 4

\* C3: a step that runs create_stim_pulse increments event_counter by one and
\* appends to seq, leaving what seq held, the six instructions Event(0, 1, id,
\* label of a and id), DAC(0, 512 - a), Delay(p), DAC(0, 512 + a), Delay(p),
\* DAC(0, 512) with id the incremented counter; the caller's inter-pulse delay
\* is all that follows them.
C3_PulseShape ==
    [][ (\/ event_counter' # event_counter
         \/ (Len(seq') > Len(seq) /\ seq'[Len(seq) + 1].op # "DelaySamples"))
        => LET L == Len(seq)
               id == event_counter + 1
               a == 512 - seq'[L + 2].value
               p == seq'[L + 3].samples
           IN  /\ event_counter' = id
               /\ Len(seq') = L + 7
               /\ SubSeq(seq', 1, L) = seq
               /\ SubSeq(seq', L + 1, L + 6) =
                      << Event(0, 1, id, Label(a, id)), DAC(0, 512 - a), DelaySamples(p),
                         DAC(0, 512 + a), DelaySamples(p), DAC(0, 512) >>
               /\ seq'[L + 7] = DelaySamples(args.inter_pulse_interval) ]_vars

\* A pulse appended behind instructions already in the sequence.
C3_Witness ==
    /\ cpc = "loop" /\ Len(seq) = 14
    /\ IsPulse(seq, 8, 34, 2)
    /\ seq[8] = Event(0, 1, event_counter, Label(34, event_counter))

\* C4 as stated: a finished no-sweep compilation of n >= 1 pulses holds n Event
\* instructions and 5n other instructions.
C4_AsStated ==
    (InNoSweep /\ cpc = "done") =>
        /\ Len(Events(seq)) = args.number_pulses_per_train
        /\ Len(NonEvents(seq)) = 5 * args.number_pulses_per_train

\* C4, amended: a no-sweep compilation emits n pulse blocks at the fixed
\* amplitude and phase, each followed by exactly one inter-pulse delay; the
\* finished sequence holds n Event instructions and 6n other instructions (the
\* 5n of the pulse blocks and the n inter-pulse delays).
C4_NoSweepCounts ==
    InNoSweep =>
        LET n == args.number_pulses_per_train
            pulses == Len(Events(seq))
        IN  /\ \A i \in 0..(pulses - 1) :
                /\ IsPulse(seq, 7 * i + 1, IntDiv(args.amplitude, dac_lsb_mV), args.phase)
                /\ IsDelay(seq, 7 * i + 7, args.inter_pulse_interval)
            /\ Len(seq) = 7 * pulses
            /\ cpc = "done" =>
                /\ pulses = n
                /\ Len(NonEvents(seq)) = 6 * n
                /\ Len(seq) = 7 * n

\* A finished no-sweep compilation of three pulses.
C4_Witness ==
    /\ InNoSweep /\ cpc = "done" /\ compiler = "official"
    /\ args.number_pulses_per_train = 3
    /\ Len(Events(seq)) = 3 /\ Len(seq) = 21

TrainOffset(k) == 7 * ((k * (k + 1)) \div 2) + 2 * k

\* C7: in recurrent mode train k (0-based) holds exactly k + 1 pulses, each
\* followed by one inter-pulse delay, and exactly two inter-train delays follow
\* the train, so two of them stand between consecutive trains.
C7_RecurrentTrains ==
    (compiler = "recurrent" /\ Running) =>
        LET n == args.number_pulses_per_train
            finished == IF cpc = "done" THEN n ELSE train
            a == IntDiv(args.amplitude, dac_lsb_mV)
        IN  /\ \A k \in 0..(finished - 1) :
                /\ \A r \in 0..k :
                    /\ IsPulse(seq, TrainOffset(k) + 7 * r + 1, a, args.phase)
                    /\ IsDelay(seq, TrainOffset(k) + 7 * r + 7, args.inter_pulse_interval)
                /\ IsDelay(seq, TrainOffset(k + 1) - 1, args.inter_train_interval)
                /\ IsDelay(seq, TrainOffset(k + 1), args.inter_train_interval)
            /\ Len(seq) >= TrainOffset(finished)
            /\ cpc = "done" => (finished = n /\ Len(seq) = TrainOffset(n))

\* A finished recurrent compilation of three trains: 1 + 2 + 3 pulses.
C7_Witness ==
    /\ compiler = "recurrent" /\ cpc = "done"
    /\ args.number_pulses_per_train = 3
    /\ Len(Events(seq)) = 6 /\ Len(seq) = TrainOffset(3)

----------------------------------------------------------------------------
\* Vocabulary of the allocation properties.

\* The unit the array reported at the k-th query, as the allocator keeps it:
\* connect_stim_units_to_stim_electrodes keeps int(stim), the scripts the string.
ReportedUnit(k) == IF allocator = "official" THEN ParseInt(reports[k]) ELSE reports[k]

\* The exception raised names this electrode.
Identifies(e, electrode) ==
    /\ e # <<>>
    /\ Len(e.message) = 2
    /\ e.message[2] = electrode

\* C8: once the allocation has completed and the script goes on with its
\* result, the unit list is as long as the electrode list and its i-th element
\* is the unit the array reported for the i-th electrode.
C8_AllocationInOrder ==
    apc = "downloaded" =>
        /\ Len(stim_units) = Len(stim_electrodes)
        /\ \A i \in 1..Len(stim_units) : stim_units[i] = ReportedUnit(i)

\* C9: in connect_stim_units_to_stim_electrodes and in the procedure-3 loop, a
\* report that repeats the unit of an earlier electrode is the last query of
\* the allocation, which ends raised with an error naming that electrode (at
\* the latest when the loop is left), and no unit list comes out of it.
C9_DuplicateFailFast ==
    allocator \in {"official", "procedure3"} =>
        \A k \in 1..Len(reports) :
            (/\ reports[k] # <<>>
             /\ \E j \in 1..(k - 1) : reports[j] = reports[k])
            => /\ Len(reports) = k
               /\ apc \notin {"allocated", "downloaded"}
               /\ apc = "loop" => el = Len(stim_electrodes)
               /\ apc # "loop" =>
                      (apc = "raised" /\ Identifies(alloc_err, stim_electrodes[k]))

\* C10: an empty report (no channel can be routed) is the last query of the
\* allocation, which ends raised with the error naming that electrode; the
\* script never goes on to download and build from such an allocation.
C10_NoUnitFailFast ==
    \A k \in 1..Len(reports) :
        reports[k] = <<>>
        => /\ Len(reports) = k
           /\ apc = "raised"
           /\ Identifies(alloc_err, stim_electrodes[k])

\* C11: whenever the script goes on from the allocation to build its
\* stimulation sequence, the unit list holds no unit twice, whatever the array
\* reported.
C11_UnitsDistinct ==
    apc = "downloaded" => ~HasDuplicates(stim_units)

\* A sweep is enabled while its max or its step is not given.
SweepUnset(flag, max, step) == flag /\ (max = None \/ step = None)

\* The running (or last) call was given an enabled sweep without its bounds.
CalledWithUnsetSweep ==
    /\ calls > 0
    /\ \/ /\ compiler = "official"
          /\ SweepUnset(args.changing_amplitude, args.max_amplitude, args.amplitude_interval)
       \/ /\ compiler = "evoked"
          /\ \/ SweepUnset(args.changing_amplitude, args.max_amplitude,
                           args.amplitude_interval)
             \/ SweepUnset(args.changing_phase, args.max_phase, args.phase_interval)

\* C12: a call of prepare_stim_sequence with a sweep enabled (amplitude alone,
\* phase alone or both) whose max or step is unset has raised ValueError: the
\* sequence holds no instruction, the event counter has its value from before
\* the call, and the call never runs its loops or returns.
C12_UnsetSweepRaises ==
    CalledWithUnsetSweep =>
        /\ cpc = "raised" /\ err = "ValueError"
        /\ seq = <<>>
        /\ Len(Events(seq)) = 0
        /\ event_counter = counter0

\* A second call of the process (the counter is past 1), both sweeps enabled,
\* the phase sweep without its max, that raised.
C12_Witness ==
    /\ compiler = "evoked" /\ cpc = "raised" /\ err = "ValueError"
    /\ calls = 2 /\ counter0 > 1 /\ event_counter = counter0
    /\ args.changing_amplitude /\ args.changing_phase
    /\ args.max_amplitude # None /\ args.amplitude_interval # None
    /\ args.max_phase = None

\* A sweep is enabled with both bounds given and max <= start: its range is empty.
SweepEmpty(flag, start, max, step) ==
    flag /\ max # None /\ step # None /\ Val(max) <= start

\* The running (or last) call was given an enabled sweep with an empty range.
CalledWithEmptySweep ==
    /\ calls > 0
    /\ \/ /\ compiler = "official"
          /\ SweepEmpty(args.changing_amplitude, args.amplitude, args.max_amplitude,
                        args.amplitude_interval)
       \/ /\ compiler = "evoked"
          /\ \/ SweepEmpty(args.changing_amplitude, args.amplitude, args.max_amplitude,
                           args.amplitude_interval)
             \/ SweepEmpty(args.changing_phase, args.phase, args.max_phase,
                           args.phase_interval)

\* C13: a call of prepare_stim_sequence with an enabled sweep whose max is not
\* above its start (positive step) ends in an error: it never returns a
\* sequence, and no call at all returns a sequence holding zero pulses.
C13_EmptyRangeRaises ==
    /\ CalledWithEmptySweep => (cpc # "done" /\ (cpc = "raised" => err = "ValueError"))
    /\ cpc = "done" => Len(Events(seq)) > 0

\* C14: a call of prepare_stim_sequence that raises its configuration error
\* (ValueError) has issued no device query and no device command before the
\* error: the raising step leaves the device untouched.
C14_ErrorBeforeDevice ==
    [][ (cpc' = "raised" /\ err' = "ValueError") => device_log' = device_log ]_vars

\* b is mV / lsb (lsb in hundredths of a millivolt) truncated toward zero: the
\* floor of the quotient when lsb is positive.
Truncates(b, mV, lsb) ==
    IF lsb > 0
    THEN b * lsb <= 100 * mV /\ 100 * mV < (b + 1) * lsb
    ELSE b <= 0 /\ (-b) * (-lsb) <= 100 * mV /\ 100 * mV < (1 - b) * (-lsb)

\* The amplitudes in millivolts the call asks for, one per train in order of
\* the amplitude loop, and the number of pulses compiled for each of them.
AskedAmplitudes ==
    IF InBothSweep \/ InAmplitudeSweep THEN ExpectedAmplitudes ELSE << args.amplitude >>

PulsesPerAmplitude ==
    IF InBothSweep
    THEN Len(ExpectedPhases) * args.number_pulses_per_train
    ELSE IF InAmplitudeSweep
         THEN args.number_pulses_per_train
         ELSE Len(Events(seq)) + 1

\* The train (block of n pulses of one sweep value) of the pulse of ordinal i.
TrainOf(i) ==
    IF InBothSweep \/ InAmplitudeSweep \/ InPhaseSweep
    THEN i \div args.number_pulses_per_train
    ELSE 0

\* C15: the DAC bits of every pulse are its amplitude in millivolts divided by
\* the device's lsb and truncated (the floor for a positive lsb), never rounded
\* to nearest, and all pulses of one train carry the same bits.
C15_TruncatingConversion ==
    (Running /\ args.amplitude >= 0) =>
        LET pl == PulseList(seq)
            A == AskedAmplitudes
            m == PulsesPerAmplitude
        IN  /\ \A i \in 0..(Len(pl) - 1) :
                /\ m > 0 /\ i \div m < Len(A)
                /\ Truncates(pl[i + 1][1], A[(i \div m) + 1], dac_lsb_mV)
            /\ \A i \in 1..(Len(pl) - 1) :
                TrainOf(i) = TrainOf(i - 1) => pl[i + 1][1] = pl[i][1]

\* The sweep [100,700) step 100 at 2.92 mV per bit with two pulses per train:
\* 100 mV is 34 bits (34.25 truncated) and 300 mV is 102 bits (102.74
\* truncated, where rounding gives 103), twice each.
C15_Witness ==
    /\ InAmplitudeSweep /\ cpc = "done" /\ dac_lsb_mV = 292
    /\ args.amplitude = 100 /\ args.max_amplitude = Some(700)
    /\ args.number_pulses_per_train = 2
    /\ LET pl == PulseList(seq)
       IN  /\ Len(pl) = 12
           /\ pl[1][1] = 34 /\ pl[2][1] = 34
           /\ pl[5][1] = 102 /\ pl[6][1] = 102

\* C16: a call of prepare_stim_sequence that read a scale factor lsb <= 0 from
\* the device fails: it emits no instruction (so no DAC value computed from
\* that factor) and never returns a sequence.
C16_NonPositiveLsbFails ==
    (calls > 0 /\ dac_lsb_mV <= 0) => (seq = <<>> /\ cpc # "done")

\* C17: every DAC instruction of a sequence under compilation carries a value
\* in 0..1023 and every delay a sample count >= 0, the amplitude and the phase
\* asked for being non-negative and the scale factor positive.
C17_DacRange ==
    (Running /\ args.amplitude >= 0 /\ args.phase >= 0 /\ dac_lsb_mV > 0) =>
        \A j \in 1..Len(seq) :
            /\ seq[j].op = "DAC" => (0 <= seq[j].value /\ seq[j].value <= 1023)
            /\ seq[j].op = "DelaySamples" => seq[j].samples >= 0

----------------------------------------------------------------------------
\* Vocabulary of the pattern properties.

\* s2 is s1 followed by exactly one command per entry of the pattern p, the
\* j-th being cmd(the unit at position p[j] of the unit list), and by the
\* instructions of tail.
AppendsPerIndex(s1, s2, p, cmd(_), tail) ==
    /\ Len(s2) = Len(s1) + Len(p) + Len(tail)
    /\ SubSeq(s2, 1, Len(s1)) = s1
    /\ \A j \in 1..Len(p) :
        /\ p[j] < Len(stim_units)
        /\ s2[Len(s1) + j] = cmd(stim_units[p[j] + 1])
    /\ SubSeq(s2, Len(s1) + Len(p) + 1, Len(s2)) = tail

\* C18: a completed call of a power-on generator appends to the sequence, for
\* the j-th index of its pattern and in that order, one command for the unit
\* units[pattern[j]] with power-up true, connect true, voltage mode and DAC
\* source 0; a completed call of a power-off generator appends one power-up
\* false command per index in the same order (the procedure-3 loop body then
\* adds its delay).  Nothing else is appended, the instructions already in the
\* sequence stay, and the pattern list and the unit list are unchanged.
C18_PatternOrder ==
    [][ /\ (bpc = "power" /\ bpc' = "pulse") =>
            /\ AppendsPerIndex(sequence1, sequence1', pattern',
                   LAMBDA u : [op |-> "StimulationUnit", unit |-> u, power_up |-> TRUE,
                               connect |-> TRUE, mode |-> "voltage", dac_source |-> 0],
                   <<>>)
            /\ allocator = "spatial" => pattern' = patterns[pattern_i + 1]
            /\ patterns' = patterns /\ stim_units' = stim_units
        /\ (bpc = "down" /\ bpc' \in {"power", "clip_end"}) =>
            /\ AppendsPerIndex(sequence1, sequence1', pattern,
                   LAMBDA u : [op |-> "StimulationUnit", unit |-> u, power_up |-> FALSE],
                   IF allocator = "procedure3" THEN << DelaySamples(1970) >> ELSE <<>>)
            /\ pattern' = pattern
            /\ patterns' = patterns /\ stim_units' = stim_units ]_vars

\* The spatial script in its second repetition of pattern [0, 2] over the
\* units "5", "7", "12": power-on commands for "5" then "12" stand behind the
\* instructions of the first repetition.
C18_Witness ==
    /\ allocator = "spatial" /\ bpc = "pulse" /\ step_i = 1
    /\ stim_units = << <<5>>, <<7>>, <<1, 2>> >>
    /\ pattern = << 0, 2 >>
    /\ Len(sequence1) = 16
    /\ sequence1[15].unit = <<5>> /\ sequence1[15].connect
    /\ sequence1[16].unit = <<1, 2>> /\ sequence1[16].connect
    /\ sequence1[13].unit = <<5>> /\ ~sequence1[13].power_up

\* Every index of the pattern p is a position of the unit list, and the unit
\* there is the one the array reported for the electrode at that position.
IndicesDenoteElectrodes(p) ==
    \A j \in 1..Len(p) :
        /\ p[j] < Len(stim_units)
        /\ p[j] < Len(reports)
        /\ stim_units[p[j] + 1] = reports[p[j] + 1]

\* C19: on every run that reaches the construction of the sequence, each index
\* of each pattern (the patterns of the spatial script, the row in use of the
\* procedure-3 script) is smaller than the number of allocated units and
\* denotes the unit of the electrode at that position of the electrode list;
\* no lookup raises IndexError.
C19_IndicesInBounds ==
    apc = "downloaded" =>
        /\ build_err = "none"
        /\ \A k \in 1..Len(patterns) : IndicesDenoteElectrodes(patterns[k])
        /\ IndicesDenoteElectrodes(pattern)

----------------------------------------------------------------------------
\* C20: send_stim_pulses_all_units sends the sequence it was given, as it was
\* compiled, once per completed iteration and number_pulse_trains times by its
\* return, each send followed by a wait of 10 s (so a wait stands between
\* consecutive sends); with zero repetitions nothing is sent.  No step of the
\* dispatcher changes the sequence or the event counter, and none queries the
\* device as a compilation does.
C20_ReplaysSameSequence ==
    /\ [](dpc \in {"sending", "returned"} =>
            /\ sends <= number_pulse_trains
            /\ dpc = "returned" => sends = number_pulse_trains
            /\ Len(device_log) = calls + 2 * sends
            /\ \A k \in 1..sends :
                /\ device_log[calls + 2 * k - 1] = <<"send", seq>>
                /\ device_log[calls + 2 * k] = <<"sleep", 10>>
            /\ \A k \in 1..calls : device_log[k] = <<"query_DAC_lsb_mV">>)
    /\ [][ dpc' # "idle" => (seq' = seq /\ event_counter' = event_counter
                             /\ calls' = calls /\ cpc' = cpc) ]_vars

\* A sequence of two pulses sent twice, and the dispatcher returned.
C20_Witness ==
    /\ dpc = "returned" /\ number_pulse_trains = 2 /\ sends = 2
    /\ Len(Events(seq)) = 2 /\ event_counter = 3
    /\ device_log = << <<"query_DAC_lsb_mV">>, <<"send", seq>>, <<"sleep", 10>>,
                       <<"send", seq>>, <<"sleep", 10>> >>

\* The unit the sequential dispatcher is working on.
CurrentUnit == units_arg[sends + 1]

\* The units of the list the sequential dispatcher has finished with.
UnitsDone == { units_arg[k] : k \in 1..sends }

\* C21 as stated: at every send of send_stim_pulses_units_sequentially exactly
\* the current unit of the list is powered up, whatever the power state of the
\* units was when the function was called.
C21_OneChannelWhateverBefore ==
    dpc = "seq_send" => powered = {CurrentUnit}

\* C21 amended: at every send of send_stim_pulses_units_sequentially the
\* powered units are the current unit of the list and the units that were
\* powered when the function was called and are not units of the list it has
\* finished with; so exactly the current unit is powered at every send when
\* every unit was powered down at the call, as after poweroff_all_stim_units.
C21_OneChannelActive ==
    dpc = "seq_send" =>
        /\ sends < Len(units_arg)
        /\ powered = {CurrentUnit} \cup (powered0 \ UnitsDone)
        /\ powered0 = {} => powered = {CurrentUnit}

\* The second unit of a list is about to receive the sequence after
\* poweroff_all_stim_units had run, and it alone is powered.
C21_Witness ==
    /\ dpc = "seq_send"
    /\ sends = 1
    /\ Len(device_log) > NumStimUnits
    /\ device_log[1] = <<"mx.send", PowerOffCommand(0)>>
    /\ powered0 = {}
    /\ powered = {units_arg[2]}
    /\ units_arg[1] # units_arg[2]

\* The number of device commands and waits the sequential dispatcher has
\* issued so far: four per finished unit and those of the unit in work.
SequentialIssued ==
    4 * sends + (IF dpc = "seq_send" THEN 1 ELSE IF dpc = "seq_down" THEN 2 ELSE 0)

\* The j-th command or wait of a dispatch that handles the list in order:
\* power-up, send of the sequence, power-down, wait of 2 s for each unit.
SequentialStep(j) ==
    LET stim_unit == units_arg[((j - 1) \div 4) + 1]
        r == (j - 1) % 4
    IN  IF r = 0 THEN <<"mx.send", [op |-> "StimulationUnit", unit |-> stim_unit,
                                    power_up |-> TRUE, connect |-> TRUE,
                                    mode |-> "voltage", dac_source |-> 0]>>
        ELSE IF r = 1 THEN <<"send", seq>>
        ELSE IF r = 2 THEN <<"mx.send", [op |-> "StimulationUnit", unit |-> stim_unit,
                                         power_up |-> FALSE]>>
        ELSE <<"sleep", 2>>

InSequentialDispatch == dpc \in {"seq_up", "seq_send", "seq_down"}

\* C26: send_stim_pulses_units_sequentially handles the units in list order
\* and issues for each unit, in this order, the power-up of that unit (power,
\* connect, voltage mode, DAC source 0), one send of the full sequence, the
\* power-down of that unit and the settle wait, so the k-th send comes after the
\* power-down of the (k-1)-th unit; it returns only after len(stim_units)
\* sends with every unit of the list powered down, and it does return.
C26_SequentialOrder ==
    /\ [] ( (InSequentialDispatch \/ dpc = "returned") =>
              LET base == Len(device_log) - SequentialIssued
              IN  /\ sends <= Len(units_arg)
                  /\ base >= calls
                  /\ SequentialIssued <= 4 * Len(units_arg)
                  /\ \A j \in 1..SequentialIssued :
                        device_log[base + j] = SequentialStep(j)
                  /\ \A j \in 1..base : device_log[j][1] # "send"
                  /\ dpc = "returned" =>
                        /\ sends = Len(units_arg)
                        /\ \A k \in 1..Len(units_arg) : units_arg[k] \notin powered )
    /\ (InSequentialDispatch ~> dpc = "returned")

\* The dispatcher returned after two different units: eight commands and
\* waits, the second power-up after the first wait.
C26_Witness ==
    /\ dpc = "returned"
    /\ Len(units_arg) = 2 /\ units_arg[1] # units_arg[2]
    /\ sends = 2
    /\ seq # <<>>
    /\ device_log[Len(device_log) - 4] = <<"sleep", 2>>
    /\ device_log[Len(device_log) - 3] = <<"mx.send", PowerUpCommand(units_arg[2])>>
    /\ device_log[Len(device_log) - 2] = <<"send", seq>>
    /\ powered = {}

\* C22: the event counter is 1 at program start; no step decreases it, and a
\* step that starts a compilation leaves it as the previous compilation left
\* it; every Event a step appends carries an id above the counter's value
\* before the step, while every id already in the sequence is at most that
\* value: so no two pulses compiled in one process carry the same event id.
C22_CounterPersists ==
    /\ event_counter = 1
    /\ [] ( /\ event_counter >= 1
            /\ LET ev == Events(seq)
               IN  \A k \in 1..Len(ev) : ev[k].id <= event_counter
            /\ counter0 <= event_counter )
    /\ [][ /\ event_counter' >= event_counter
           /\ calls' # calls => (event_counter' = event_counter /\ counter0' = event_counter)
           /\ seq' # seq =>
                 LET before == Len(Events(seq))
                     ev == Events(seq')
                 IN  \A k \in (before + 1)..Len(ev) : ev[k].id > event_counter ]_vars

\* A second compilation of the process finished: it numbered its pulses from
\* where the first one, which emitted at least two pulses, had stopped.
C22_Witness ==
    /\ compiler = "official" /\ cpc = "done" /\ calls = 2
    /\ counter0 >= 3
    /\ Len(Events(seq)) >= 2
    /\ Events(seq)[1].id = counter0 + 1
    /\ event_counter = counter0 + Len(Events(seq))

\* The positions of s where a biphasic pulse starts: SetDac low, Delay,
\* SetDac high, Delay, SetDac zero.
PulseStarts(s) ==
    { j \in 1..(Len(s) - 4) :
        /\ s[j].op = "DAC" /\ s[j + 1].op = "DelaySamples" /\ s[j + 2].op = "DAC"
        /\ s[j + 3].op = "DelaySamples" /\ s[j + 4].op = "DAC"
        /\ s[j + 4].value = 512
        /\ s[j].value + s[j + 2].value = 2 * 512 }

\* C23: in the sequences the pattern scripts build (spatial-information and
\* procedure 3) every biphasic pulse is immediately preceded by an Event, the
\* Events carry pairwise different ids, and the sequence holds as many Events
\* as pulses.
C23_EventPerPulse ==
    LET ev == Events(sequence1)
    IN  /\ \A j \in PulseStarts(sequence1) : j > 1 /\ sequence1[j - 1].op = "Event"
        /\ Len(ev) = Cardinality(PulseStarts(sequence1))
        /\ \A k, l \in 1..Len(ev) : k # l => ev[k].id # ev[l].id

\* C24: a compilation numbers its events from the counter value its script
\* holds (1 in the evoked-response and recurrent scripts), so that compilations
\* with counters that each start at 1 yield the same event ids: the k-th Event
\* of the sequence carries the id of the script's counter advanced k times.
C24_NumbersFromGivenCounter ==
    (Running /\ compiler \in {"evoked", "recurrent"}) =>
        \A k \in 1..Len(Events(seq)) : Events(seq)[k].id = script_event_counter + k

\* C25: for a finished evoked-response compilation with both sweeps, amplitude
\* values A, phase values D and R pulses per condition, every position of the
\* slice psth_plot takes for (duration index d, amplitude index a) holds a
\* pulse compiled with the d-th phase and the a-th amplitude, and for the
\* script's amplitude arguments (100 mV up to 700 mV in steps of 100 mV) the
\* decoder's amplitude list is the list the compiler enumerates.
C25_DecoderAgrees ==
    (InBothSweep /\ cpc = "done" /\ dac_lsb_mV > 0) =>
        LET A == ExpectedAmplitudes
            D == ExpectedPhases
            R == args.number_pulses_per_train
            pulses == PulseList(seq)
        IN  /\ \A d \in 0..(Len(D) - 1), a \in 0..(Len(A) - 1) :
                  \A k \in 1..R :
                      LET q == sti_time_slice(d, a, R, Len(A))[k] + 1
                      IN  /\ q <= Len(pulses)
                          /\ pulses[q] = <<IntDiv(A[a + 1], dac_lsb_mV), D[d + 1]>>
            /\ (/\ args.amplitude = amp_init
                /\ args.max_amplitude = Some(amp_max)
                /\ args.amplitude_interval = Some(amp_init)) => A = sti_amp

\* The units powered up after the device, with the units of on powered up,
\* worked off the instructions of s in order.
RECURSIVE ReplayPower(_, _)
ReplayPower(s, on) ==
    IF s = <<>> THEN on
    ELSE ReplayPower(Tail(s), IF Head(s).op = "StimulationUnit"
                              THEN DeviceApply(on, Head(s)) ELSE on)

\* The stimulation units the indices of the pattern p denote.
UnitsOfPattern(p) == { stim_units[p[j] + 1] : j \in 1..Len(p) }

\* The units named by the power-up (up = TRUE) or power-down commands of s,
\* in order.
CommandedUnits(s, up) ==
    LET cmds == SelectSeq(s, LAMBDA x : x.op = "StimulationUnit" /\ x.power_up = up)
    IN  [k \in 1..Len(cmds) |-> cmds[k].unit]

\* C27: in the sequences of the spatial-information and procedure-3 scripts,
\* replayed in append order from all units powered down, the powered-up units
\* are exactly the units of the current pattern from its power-on group to
\* its pulse, and no unit is powered up after each power-down group; the
\* power-down commands name the units of the power-up commands, group for
\* group, each power-on group being closed before the next one opens.
C27_OnlyCurrentPatternPowered ==
    LET on == ReplayPower(sequence1, {})
        ups == CommandedUnits(sequence1, TRUE)
        downs == CommandedUnits(sequence1, FALSE)
    IN  /\ bpc \in {"pulse", "down"} =>
            /\ on = UnitsOfPattern(pattern)
            /\ ups = downs \o [j \in 1..Len(pattern) |-> stim_units[pattern[j] + 1]]
        /\ bpc \in {"power", "clip_end", "sent"} =>
            /\ on = {}
            /\ ups = downs

\* The second pattern of the spatial script, of two units, has been powered
\* and pulsed after the first pattern was powered down.
C27_Witness ==
    /\ allocator = "spatial" /\ bpc = "down"
    /\ pattern_i = 1 /\ Len(pattern) = 2
    /\ Len(CommandedUnits(sequence1, FALSE)) >= 1
    /\ ReplayPower(sequence1, {}) = UnitsOfPattern(pattern)
    /\ Cardinality(ReplayPower(sequence1, {})) = 2

\* The sequences the device was sent, in the order of the sends.
SentSequences ==
    LET sent == SelectSeq(device_log, LAMBDA x : x[1] = "send")
    IN  [k \in 1..Len(sent) |-> sent[k][2]]

\* The Event instructions delivered to the device, in the order of delivery.
RECURSIVE DeliveredEvents(_)
DeliveredEvents(sent) ==
    IF sent = <<>> THEN <<>> ELSE Events(Head(sent)) \o DeliveredEvents(Tail(sent))

\* C28: while send_stim_pulses_all_units replays a compiled sequence, the
\* Events delivered to the device are the Events of the sequence repeated once
\* per send, with their ids and labels as compiled: the j-th Event of every
\* repetition is the j-th Event of the sequence, so every id has been
\* delivered once per send, and the delivered ids increase within a
\* repetition and fall back to the first id at the start of the next one.
C28_EventsRepeated ==
    dpc \in {"sending", "returned"} =>
        LET ev == Events(seq)
            n == Len(ev)
            del == DeliveredEvents(SentSequences)
        IN  /\ Len(del) = sends * n
            /\ sends <= number_pulse_trains
            /\ dpc = "returned" => sends = number_pulse_trains
            /\ \A i \in 1..Len(del) : del[i] = ev[((i - 1) % n) + 1]
            /\ \A j \in 1..n :
                  Cardinality({ i \in 1..Len(del) : del[i].id = ev[j].id }) = sends
            /\ \A i \in 1..(Len(del) - 1) :
                  IF i % n = 0 THEN del[i + 1].id <= del[i].id
                               ELSE del[i + 1].id > del[i].id

\* The dispatcher returned after two sends of a sequence of two pulses: four
\* Events delivered, the third with the id of the first.
C28_Witness ==
    /\ dpc = "returned" /\ number_pulse_trains = 2
    /\ Len(Events(seq)) = 2
    /\ Len(DeliveredEvents(SentSequences)) = 4
    /\ DeliveredEvents(SentSequences)[3] = Events(seq)[1]
    /\ DeliveredEvents(SentSequences)[2].id > DeliveredEvents(SentSequences)[3].id

\* The running call is one of the two standard compilers given arguments both
\* accept: the official one, or the evoked-response one without a phase sweep.
StandardCall ==
    /\ calls > 0
    /\ \/ compiler = "official"
       \/ compiler = "evoked" /\ ~args.changing_phase

\* The arguments of the running call as the official compiler takes them.
OfficialView(a) ==
    [number_pulses_per_train |-> a.number_pulses_per_train,
     inter_pulse_interval |-> a.inter_pulse_interval,
     phase |-> a.phase, amplitude |-> a.amplitude,
     changing_amplitude |-> a.changing_amplitude,
     max_amplitude |-> a.max_amplitude, amplitude_interval |-> a.amplitude_interval]

\* C29: the evoked-response prepare_stim_sequence called with changing_phase
\* false behaves as prepare_stim_sequence of stimulation_example_official on
\* the same arguments, starting counter and device scale: what either returns
\* is the sequence, and the counter value, that the official function's body
\* yields for these arguments; either raises ValueError exactly when the
\* official test of the amplitude bounds fails, and both accept the same
\* argument lists.
C29_StandardCompilersAgree ==
    /\ calls = 0 =>
          { OfficialView(a) : a \in { e \in EvokedArgs : ~e.changing_phase /\
              SweepGiven(e.changing_phase, e.max_phase, e.phase_interval) } } = OfficialArgs
    /\ (StandardCall /\ cpc = "done") =>
          LET r == official_prepare_stim_sequence(OfficialView(args), dac_lsb_mV, counter0)
          IN  seq = r.seq /\ event_counter = r.event_counter
    /\ StandardCall =>
          ((cpc = "raised" /\ err = "ValueError") <=> OfficialMissingBounds(OfficialView(args)))

\* The evoked-response compiler returned an amplitude sweep of two trains of
\* two pulses, compiled as a second call of the process.
C29_Witness ==
    /\ compiler = "evoked" /\ cpc = "done" /\ ~args.changing_phase
    /\ args.changing_amplitude /\ args.max_amplitude = Some(300)
    /\ args.number_pulses_per_train = 2
    /\ counter0 > 1
    /\ Len(Events(seq)) = 4 /\ Len(seq) = 30
    /\ seq = official_prepare_stim_sequence(OfficialView(args), dac_lsb_mV, counter0).seq

\* C30: a finished recurrent-mode compilation with number_pulses_per_train = n
\* ran n trains and holds n*(n+1)/2 pulses, all of one amplitude and phase; it
\* advanced the event counter by n*(n+1)/2; it holds 2n inter-train delays,
\* and its last two instructions are inter-train delays.
C30_RecurrentTotals ==
    (compiler = "recurrent" /\ cpc = "done") =>
        LET n == args.number_pulses_per_train
            total == (n * (n + 1)) \div 2
            gap == DelaySamples(args.inter_train_interval)
            pulses == PulseList(seq)
        IN  /\ train = n
            /\ Len(Events(seq)) = total
            /\ Len(pulses) = total
            /\ event_counter = counter0 + total
            /\ Cardinality({ j \in 1..Len(seq) : seq[j] = gap }) = 2 * n
            /\ Len(seq) >= 2
            /\ seq[Len(seq)] = gap /\ seq[Len(seq) - 1] = gap
            /\ \A k \in 1..Len(pulses) :
                  pulses[k] = <<IntDiv(args.amplitude, dac_lsb_mV), args.phase>>

\* A second recurrent compilation of the process, of three trains, finished:
\* six pulses, six inter-train delays, the counter six further.
C30_Witness ==
    /\ compiler = "recurrent" /\ cpc = "done" /\ calls = 2
    /\ args.number_pulses_per_train = 3
    /\ event_counter = counter0 + 6
    /\ Len(PulseList(seq)) = 6
    /\ Cardinality({ j \in 1..Len(seq) :
                       seq[j] = DelaySamples(args.inter_train_interval) }) = 6

====
